---- MODULE Spec2Model ----
(***************************************************************************)
(* Update dispatch engine of userbot-api-server:                           *)
(*   UpdateManager   (src/src/services/telegram/UpdateManager.ts 9-461)    *)
(*   TelegramService (src/src/services/telegram/UpdateManager.ts 472-627)  *)
(* One action per handler; a handler's synchronous part is one step, each  *)
(* await on the network or on a timer separates steps.                     *)
(***************************************************************************)
EXTENDS Integers, Sequences, FiniteSets, TLC

VARIABLES
    now,            \* Date.now(), in abstract milliseconds
    users,          \* the users table: phoneNumber -> row
    connected,      \* client.connected of the TelegramClient the map has for the account
    clients,        \* TelegramService.clients: its keys, in insertion order
    detached,       \* the TelegramClient objects the map has let go of
    calls,          \* the route calls that wait in an await, in order of arrival
    requests,       \* history: number of requests and connection drops so far
    eventHandlers,  \* the closures added by addEventHandler to the map's client
    lastUpdateId,   \* UpdateManager.lastUpdateId   (0 = no entry)
    updateBuffers,  \* UpdateManager.updateBuffers
    updateHandlers, \* UpdateManager.updateHandlers (NoHandler = no entry)
    timers,         \* armed long-poll timeouts, by the call that armed them
    promises,       \* the promise of every getUpdates call, by call number
    deliveries,     \* every sendWebhook invocation and where it stands
    processedMessages, \* UpdateManager.processedMessages, in insertion order
    pendingAlbums,  \* pendingAlbums of utils/telegram.ts: one map for all accounts
    albumTimers,    \* armed album debounce timers
    issued,         \* history: the ids returned by generateUpdateId, in order
    produced,       \* history: every Update built by a handler, with its user row
    buffered,       \* history: the ids passed to bufferUpdate, per account
    armed,          \* history: number of album timers armed so far
    observed,       \* history: the NewMessage events, with what each produced
    fired,          \* history: the ids of the album timers that fired
    escaped,        \* history: number of exceptions that left an event handler
    rawEvents       \* history: number of provider events observed

vars == <<now, users, connected, clients, detached, calls, requests, eventHandlers, lastUpdateId, updateBuffers,
          updateHandlers, timers, promises, deliveries, processedMessages,
          pendingAlbums, albumTimers, issued, produced, buffered, armed, observed,
          fired, escaped, rawEvents>>

----------------------------------------------------------------------------
(* Bounds of the explored environment *)

MaxFailures == 1   \* failed webhook attempts under SpecFrame
MaxOps == 3        \* raw events + requests + connection drops

(* Program constants *)

maxRetries == 50
maxBackoffTime == 30000
JitterRange == 200
MESSAGE_CACHE_TTL == 60000
MAX_CACHE_SIZE == 1000

Accounts == {"a1", "a2"}

(* Calls that wait in an await at one time: as many as there are accounts *)
MaxWaiting == Cardinality(Accounts)

(* The keys of TelegramService.clients after initializeClients *)
StartupClients == <<"a1", "a2">>

Undefined == -1     \* an absent optional number (offset)
Null == "null"      \* a NULL text column

Urls == {"https://hook.example/a"}
Secret == "s3cret"
Secrets == {Null, "", Secret}
Elapsed == {0, 1}
Offsets == {Undefined, 0, 2}
Limits == {1, 100}
Timeouts == {0, 30}

RawClasses == {"UpdateUserStatus", "UpdateUserTyping", "UpdateChannelUserTyping",
               "UpdateChannel", "UpdateChannelParticipant", "UpdateNewChannelMessage",
               "UpdateDeleteMessages", "UpdateMessageReactions", "UpdateConfig"}

(* The raw events drawn under Spec: <<className, getChatAction found one,  *)
(* milliseconds since the step before>>                                    *)
SampleEvents == {<<"UpdateUserStatus", FALSE, 0>>, <<"UpdateChannel", FALSE, 1>>,
                 <<"UpdateConfig", FALSE, 1>>}

NoGroup == 0        \* a message without groupedId
GroupIds == {7}

(* UpdateOptions; given = FALSE is an absent options argument, hasAllowed   *)
(* = FALSE an absent allowed_updates                                        *)
NoOptions == [given |-> FALSE, hasAllowed |-> FALSE,
              allowed_updates |-> {}, exclude_updates |-> {}]

(* An absent pendingAlbums entry *)
NoAlbum == [messages |-> <<>>, timer |-> 0]

Min(x, y) == IF x <= y THEN x ELSE y

----------------------------------------------------------------------------
(* users table rows (src/unnamed/part_000) *)

DefaultRow == [updateMode |-> "none", webhookUrl |-> Null, webhookSecret |-> Null]

NoHandler == [call |-> 0, offset |-> Undefined]

(* !x of JavaScript for an optional number *)
Falsy(x) == x = Undefined \/ x = 0

(* The truthiness of a nullable text column: null and "" are falsy *)
Truthy(text) == text # Null /\ text # ""

(* The state of the service (its UpdateManager and its clients), passed    *)
(* through the methods.                                                    *)
Manager == [connected |-> connected, clients |-> clients, detached |-> detached,
            calls |-> calls,
            requests |-> requests, eventHandlers |-> eventHandlers,
            lastUpdateId |-> lastUpdateId, updateBuffers |-> updateBuffers,
            updateHandlers |-> updateHandlers, timers |-> timers,
            promises |-> promises, deliveries |-> deliveries,
            processedMessages |-> processedMessages, pendingAlbums |-> pendingAlbums,
            albumTimers |-> albumTimers, issued |-> issued, produced |-> produced,
            buffered |-> buffered, armed |-> armed, observed |-> observed,
            fired |-> fired, escaped |-> escaped]

Commit(M) ==
    /\ connected' = M.connected
    /\ clients' = M.clients
    /\ detached' = M.detached
    /\ calls' = M.calls
    /\ requests' = M.requests
    /\ eventHandlers' = M.eventHandlers
    /\ lastUpdateId' = M.lastUpdateId
    /\ updateBuffers' = M.updateBuffers
    /\ updateHandlers' = M.updateHandlers
    /\ timers' = M.timers
    /\ promises' = M.promises
    /\ deliveries' = M.deliveries
    /\ processedMessages' = M.processedMessages
    /\ pendingAlbums' = M.pendingAlbums
    /\ albumTimers' = M.albumTimers
    /\ issued' = M.issued
    /\ produced' = M.produced
    /\ buffered' = M.buffered
    /\ armed' = M.armed
    /\ observed' = M.observed
    /\ fired' = M.fired
    /\ escaped' = M.escaped

----------------------------------------------------------------------------
(* UpdateManager.generateUpdateId: the manager after the call; the id      *)
(* returned is the new lastUpdateId of the account.                        *)
GenerateUpdateId(M, phoneNumber, t) ==
    LET lastId == IF M.lastUpdateId[phoneNumber] # 0
                  THEN M.lastUpdateId[phoneNumber] ELSE t
        newId == lastId + 1
    IN [M EXCEPT !.lastUpdateId[phoneNumber] = newId,
                 !.issued[phoneNumber] = Append(@, newId)]

(* Array.prototype.findIndex(update => update.update_id > offset), 1-based; *)
(* 0 when no element matches.                                               *)
FindIndex(buffer, offset) ==
    LET hits == {i \in 1..Len(buffer) : buffer[i].update_id > offset}
    IN IF hits = {} THEN 0 ELSE CHOOSE i \in hits : \A j \in hits : i <= j

(* UpdateManager.getBufferedUpdates: the updates returned *)
BufferedUpdates(M, phoneNumber, offset) ==
    LET buffer == M.updateBuffers[phoneNumber]
        index == FindIndex(buffer, offset)
    IN IF Falsy(offset) THEN buffer
       ELSE IF index = 0 THEN <<>>
       ELSE SubSeq(buffer, index, Len(buffer))

(* UpdateManager.getBufferedUpdates: the manager after the call *)
GetBufferedUpdates(M, phoneNumber, offset) ==
    IF Falsy(offset) \/ FindIndex(M.updateBuffers[phoneNumber], offset) # 0
    THEN [M EXCEPT !.updateBuffers[phoneNumber] = <<>>]
    ELSE M

(* clearHandlers, had it also dropped the account's lastUpdateId entry *)
ClearHandlersDropsLastId(M, phoneNumber) ==
    [M EXCEPT !.timers = @ \ {M.updateHandlers[phoneNumber].call},
              !.updateHandlers[phoneNumber] = NoHandler,
              !.updateBuffers[phoneNumber] = <<>>,
              !.lastUpdateId[phoneNumber] = 0]

(* clearHandlers, had the waiters and buffers been one store for all       *)
(* accounts                                                                *)
ClearHandlersOfAllAccounts(M, phoneNumber) ==
    [M EXCEPT !.timers = {},
              !.updateHandlers = [a \in Accounts |-> NoHandler],
              !.updateBuffers = [a \in Accounts |-> <<>>]]

(* clearHandlers, had it resolved the waiter it removes with [] *)
ClearHandlersResolvesWaiter(M, phoneNumber) ==
    LET handler == M.updateHandlers[phoneNumber]
        M1 == [M EXCEPT !.timers = @ \ {handler.call},
                        !.updateHandlers[phoneNumber] = NoHandler,
                        !.updateBuffers[phoneNumber] = <<>>]
    IN IF handler = NoHandler THEN M1
       ELSE [M1 EXCEPT !.promises[handler.call].status = "resolved"]

(* clearHandlers, had it left the timer of the waiter it removes armed *)
ClearHandlersKeepsTimer(M, phoneNumber) ==
    [M EXCEPT !.updateHandlers[phoneNumber] = NoHandler,
              !.updateBuffers[phoneNumber] = <<>>]

(* UpdateManager.clearHandlers *)
ClearHandlers(M, phoneNumber) ==
    [M EXCEPT !.timers = @ \ {M.updateHandlers[phoneNumber].call},
              !.updateHandlers[phoneNumber] = NoHandler,
              !.updateBuffers[phoneNumber] = <<>>]

(* bufferUpdate, had it resolved the waiter without deleting it *)
BufferUpdateKeepsHandler(M, phoneNumber, update) ==
    LET M1 == [M EXCEPT !.updateBuffers[phoneNumber] = Append(@, update),
                        !.buffered[phoneNumber] = Append(@, update.update_id)]
        handler == M1.updateHandlers[phoneNumber]
        updates == BufferedUpdates(M1, phoneNumber, handler.offset)
        M2 == GetBufferedUpdates(M1, phoneNumber, handler.offset)
    IN IF handler = NoHandler THEN M1
       ELSE IF Len(updates) > 0
       THEN [M2 EXCEPT !.timers = @ \ {handler.call},
                       !.promises[handler.call].status = "resolved",
                       !.promises[handler.call].result = updates]
       ELSE M2

(* bufferUpdate, had it resolved the waiter without clearing its timeout *)
BufferUpdateKeepsTimer(M, phoneNumber, update) ==
    LET M1 == [M EXCEPT !.updateBuffers[phoneNumber] = Append(@, update),
                        !.buffered[phoneNumber] = Append(@, update.update_id)]
        handler == M1.updateHandlers[phoneNumber]
        updates == BufferedUpdates(M1, phoneNumber, handler.offset)
        M2 == GetBufferedUpdates(M1, phoneNumber, handler.offset)
    IN IF handler = NoHandler THEN M1
       ELSE IF Len(updates) > 0
       THEN [M2 EXCEPT !.updateHandlers[phoneNumber] = NoHandler,
                       !.promises[handler.call].status = "resolved",
                       !.promises[handler.call].result = updates]
       ELSE M2

(* bufferUpdate, had it put the update at the front of the buffer *)
BufferUpdateUnshifts(M, phoneNumber, update) ==
    LET M1 == [M EXCEPT !.updateBuffers[phoneNumber] = <<update>> \o @,
                        !.buffered[phoneNumber] = Append(@, update.update_id)]
        handler == M1.updateHandlers[phoneNumber]
        updates == BufferedUpdates(M1, phoneNumber, handler.offset)
        M2 == GetBufferedUpdates(M1, phoneNumber, handler.offset)
    IN IF handler = NoHandler THEN M1
       ELSE IF Len(updates) > 0
       THEN [M2 EXCEPT !.timers = @ \ {handler.call},
                       !.updateHandlers[phoneNumber] = NoHandler,
                       !.promises[handler.call].status = "resolved",
                       !.promises[handler.call].result = updates]
       ELSE M2

(* bufferUpdate, had it resolved the waiter with the whole buffer *)
BufferUpdateResolvesWholeBuffer(M, phoneNumber, update) ==
    LET M1 == [M EXCEPT !.updateBuffers[phoneNumber] = Append(@, update),
                        !.buffered[phoneNumber] = Append(@, update.update_id)]
        handler == M1.updateHandlers[phoneNumber]
        updates == BufferedUpdates(M1, phoneNumber, handler.offset)
        M2 == GetBufferedUpdates(M1, phoneNumber, handler.offset)
    IN IF handler = NoHandler THEN M1
       ELSE IF Len(updates) > 0
       THEN [M2 EXCEPT !.timers = @ \ {handler.call},
                       !.updateHandlers[phoneNumber] = NoHandler,
                       !.promises[handler.call].status = "resolved",
                       !.promises[handler.call].result = M1.updateBuffers[phoneNumber]]
       ELSE M2

(* UpdateManager.bufferUpdate *)
BufferUpdate(M, phoneNumber, update) ==
    LET M1 == [M EXCEPT !.updateBuffers[phoneNumber] = Append(@, update),
                        !.buffered[phoneNumber] = Append(@, update.update_id)]
        handler == M1.updateHandlers[phoneNumber]
        updates == BufferedUpdates(M1, phoneNumber, handler.offset)
        M2 == GetBufferedUpdates(M1, phoneNumber, handler.offset)
    IN IF handler = NoHandler THEN M1
       ELSE IF Len(updates) > 0
       THEN [M2 EXCEPT !.timers = @ \ {handler.call},
                       !.updateHandlers[phoneNumber] = NoHandler,
                       !.promises[handler.call].status = "resolved",
                       !.promises[handler.call].result = updates]
       ELSE M2

(* The request one attempt of sendWebhook hands to fetch: the URL, the     *)
(* X-Telegram-Secret header (Null when it is not set; it is set when       *)
(* user.webhookSecret is truthy, 329) and the body                         *)
FetchRequest(webhookUrl, webhookSecret, update) ==
    [url |-> webhookUrl,
     secretHeader |-> IF Truthy(webhookSecret) THEN webhookSecret ELSE Null,
     body |-> update]

(* UpdateManager.sendWebhook up to its first await: attempt 0 is posted *)
SendWebhook(M, user, phoneNumber, update) ==
    [M EXCEPT !.deliveries = Append(@,
        [phoneNumber |-> phoneNumber, update |-> update,
         url |-> user.webhookUrl, secret |-> user.webhookSecret,
         request |-> FetchRequest(user.webhookUrl, user.webhookSecret, update),
         attempt |-> 0, posts |-> 1, phase |-> "fetch", backoffTime |-> 0])]

(* processUpdate, had it buffered what it sends to the webhook as well *)
ProcessUpdateAlsoBuffers(M, user, phoneNumber, update) ==
    IF user.updateMode = "webhook" /\ Truthy(user.webhookUrl)
    THEN BufferUpdate(SendWebhook(M, user, phoneNumber, update), phoneNumber, update)
    ELSE BufferUpdate(M, phoneNumber, update)

(* UpdateManager.processUpdate *)
ProcessUpdate(M, user, phoneNumber, update) ==
    IF user.updateMode = "webhook" /\ Truthy(user.webhookUrl)
    THEN SendWebhook(M, user, phoneNumber, update)
    ELSE BufferUpdate(M, phoneNumber, update)

(* The payload a raw event class is mapped to by the raw handler's switch; *)
(* "none" for the default branch.                                          *)
KindOfClass(className) ==
    CASE className = "UpdateUserStatus" -> "user_status"
      [] className \in {"UpdateUserTyping", "UpdateChannelUserTyping"} -> "typing_status"
      [] className \in {"UpdateChannel", "UpdateChannelParticipant",
                        "UpdateNewChannelMessage"} -> "chat_action"
      [] className = "UpdateDeleteMessages" -> "deleted_message"
      [] className = "UpdateMessageReactions" -> "reaction"
      [] OTHER -> "none"

(* The UpdateType the raw handler asks shouldIncludeUpdate about *)
TypeOfKind(kind) ==
    CASE kind = "user_status" -> "user_update"
      [] kind = "typing_status" -> "typing"
      [] kind = "deleted_message" -> "delete"
      [] OTHER -> kind

(* shouldIncludeUpdate (utils/telegram.ts 534-547) *)
ShouldIncludeUpdate(type, options) ==
    IF ~options.given THEN TRUE
    ELSE IF type \in options.exclude_updates THEN FALSE
    ELSE IF ~options.hasAllowed THEN TRUE
    ELSE type \in options.allowed_updates \/ "all" \in options.allowed_updates

(* The Update literal of a handler: its update_id comes from                *)
(* generateUpdateId; the history notes the user row of the handler.         *)
NewUpdate(M, user, phoneNumber, t) ==
    LET M1 == GenerateUpdateId(M, phoneNumber, t)
    IN [M1 EXCEPT !.produced = Append(@, [phoneNumber |-> phoneNumber,
                                          update_id |-> M1.lastUpdateId[phoneNumber],
                                          user |-> user])]

(* The classes getChatAction has a case for *)
ChatActionClasses == {"UpdateNewChannelMessage", "UpdateChannelParticipant"}

(* getChatAction(update) returns an action.  found: the message of an      *)
(* UpdateNewChannelMessage carries one of the six service actions, or the  *)
(* number of admin or banned rights of an UpdateChannelParticipant has     *)
(* changed; any other class falls out of the switch                        *)
GetChatAction(className, found) == className \in ChatActionClasses /\ found

(* The raw handler installed by setupEventHandling, for the closure's user  *)
(* and options. chatAction: what the update carries for getChatAction to   *)
(* find.                                                                    *)
RawHandler(M, user, options, phoneNumber, className, chatAction, t) ==
    LET kind == KindOfClass(className)
        M1 == NewUpdate(M, user, phoneNumber, t)
        update == [update_id |-> M1.lastUpdateId[phoneNumber], kind |-> kind]
    IN IF kind = "none" THEN M
       ELSE IF ~ShouldIncludeUpdate(TypeOfKind(kind), options) THEN M
       ELSE IF kind = "chat_action" /\ ~GetChatAction(className, chatAction) THEN M
       ELSE ProcessUpdate(M1, user, phoneNumber, update)

(* A raw event handed to every handler of the client, in the order added *)
RECURSIVE Dispatch(_, _, _, _, _, _)
Dispatch(M, handlers, phoneNumber, className, chatAction, t) ==
    IF handlers = <<>> THEN M
    ELSE Dispatch(RawHandler(M, Head(handlers).user, Head(handlers).options,
                             phoneNumber, className, chatAction, t),
                  Tail(handlers), phoneNumber, className, chatAction, t)

MessageTypes == {"message", "edited_message", "channel_post", "edited_channel_post"}

(* DEFAULT_UPDATE_TYPES (utils/telegram.ts); setupEventHandling reads it    *)
(* into allowedTypes, which nothing uses                                    *)
DEFAULT_UPDATE_TYPES == MessageTypes \cup {"delete", "typing", "chat_action", "album"}

(* The handler closure one setupEventHandling call adds to its client: it  *)
(* holds the user row and the options of the call; its message handler is  *)
(* added when one of the message types is included (179-201).              *)
HandlerClosure(user, options) ==
    [user |-> user, options |-> options,
     messageHandler |-> \E type \in MessageTypes : ShouldIncludeUpdate(type, options)]

(* UpdateManager.setupEventHandling for the client the map has for the     *)
(* account: clears the waiter and the buffer and adds one more handler     *)
(* closure to the client.                                                  *)
SetupEventHandling(M, user, phoneNumber, options) ==
    LET M1 == ClearHandlers(M, phoneNumber)
    IN [M1 EXCEPT !.eventHandlers[phoneNumber] = Append(@, HandlerClosure(user, options))]

(* The type the message handler resolves from message.editDate and         *)
(* message.post                                                            *)
ResolveType(message) ==
    IF message.post
    THEN (IF message.editDate THEN "edited_channel_post" ELSE "channel_post")
    ELSE (IF message.editDate THEN "edited_message" ELSE "message")

(* processedMessages.has(messageKey) *)
HasProcessed(M, messageKey) ==
    \E i \in 1..Len(M.processedMessages) : M.processedMessages[i].key = messageKey

(* The cache without its entry at position i *)
Without(cache, i) == SubSeq(cache, 1, i - 1) \o SubSeq(cache, i + 1, Len(cache))

(* The second pass of cleanupProcessedMessages: the first `excess` of the  *)
(* entries sorted by timestamp are deleted; the sort is stable, so among   *)
(* equal timestamps the entry inserted first goes first.                   *)
RECURSIVE DropOldest(_, _)
DropOldest(cache, excess) ==
    IF excess <= 0 THEN cache
    ELSE LET first == CHOOSE i \in 1..Len(cache) : \A j \in 1..Len(cache) :
                          \/ cache[i].timestamp < cache[j].timestamp
                          \/ cache[i].timestamp = cache[j].timestamp /\ i <= j
         IN DropOldest(Without(cache, first), excess - 1)

(* The second pass, had it deleted the newest entries *)
RECURSIVE DropNewest(_, _)
DropNewest(cache, excess) ==
    IF excess <= 0 THEN cache
    ELSE LET last == CHOOSE i \in 1..Len(cache) : \A j \in 1..Len(cache) :
                          \/ cache[i].timestamp > cache[j].timestamp
                          \/ cache[i].timestamp = cache[j].timestamp /\ i >= j
         IN DropNewest(Without(cache, last), excess - 1)

(* cleanupProcessedMessages, had its second pass deleted the newest entries *)
CleanupProcessedMessagesDropsNewest(M, t) ==
    LET expiredTime == t - MESSAGE_CACHE_TTL
        Fresh(e) == ~(e.timestamp < expiredTime)
        kept == SelectSeq(M.processedMessages, Fresh)
    IN [M EXCEPT !.processedMessages = DropNewest(kept, Len(kept) - MAX_CACHE_SIZE)]

(* cleanupProcessedMessages, had it left out the pass over expired entries *)
CleanupProcessedMessagesKeepsExpired(M, t) ==
    [M EXCEPT !.processedMessages = DropOldest(@, Len(@) - MAX_CACHE_SIZE)]

(* UpdateManager.cleanupProcessedMessages *)
CleanupProcessedMessages(M, t) ==
    LET expiredTime == t - MESSAGE_CACHE_TTL
        Fresh(e) == ~(e.timestamp < expiredTime)
        kept == SelectSeq(M.processedMessages, Fresh)
    IN [M EXCEPT !.processedMessages = DropOldest(kept, Len(kept) - MAX_CACHE_SIZE)]

(* Array.prototype.sort((a, b) => a.id - b.id) of a sorted array to which  *)
(* one message was pushed: the sort is stable                              *)
SortById(messages) ==
    LET n == Len(messages)
        last == messages[n]
        before == {i \in 1..(n - 1) : messages[i].id <= last.id}
        k == Cardinality(before)
    IN SubSeq(messages, 1, k) \o <<last>> \o SubSeq(messages, k + 1, n - 1)

(* handleMediaAlbum (utils/telegram.ts 255-306): the messages returned *)
AlbumMessages(M, message) ==
    LET existingAlbum == M.pendingAlbums[message.groupedId]
        messages == SortById(Append(existingAlbum.messages, message))
    IN IF message.groupedId = NoGroup THEN <<message>>
       ELSE IF existingAlbum # NoAlbum
       THEN (IF Len(messages) >= 2 THEN messages ELSE <<>>)
       ELSE <<>>

(* handleMediaAlbum: the state after the call. The timer set for a         *)
(* subsequent message stays armed when the album is returned.              *)
HandleMediaAlbum(M, message) ==
    LET groupId == message.groupedId
        existingAlbum == M.pendingAlbums[groupId]
        messages == SortById(Append(existingAlbum.messages, message))
        timer == M.armed + 1
        cleared == {x \in M.albumTimers : x.id # existingAlbum.timer}
    IN IF groupId = NoGroup THEN M
       ELSE IF existingAlbum # NoAlbum
       THEN [M EXCEPT !.armed = timer,
                      !.albumTimers = cleared \cup
                          {[id |-> timer, groupId |-> groupId, delay |-> 500]},
                      !.pendingAlbums[groupId] =
                          IF Len(messages) >= 2 THEN NoAlbum
                          ELSE [messages |-> messages, timer |-> timer]]
       ELSE [M EXCEPT !.armed = timer,
                      !.albumTimers = @ \cup
                          {[id |-> timer, groupId |-> groupId, delay |-> 300]},
                      !.pendingAlbums[groupId] =
                          [messages |-> <<message>>, timer |-> timer]]

(* The callbacks of both album timers: the entry of the group is deleted;  *)
(* what the initial timer's callback returns is received by no one.        *)
AlbumTimerCallback(M, timer) ==
    [M EXCEPT !.albumTimers = @ \ {timer},
              !.fired = @ \cup {timer.id},
              !.pendingAlbums[timer.groupId] = NoAlbum]

(* handler?.options in handleMessageUpdate: the options of the waiter that *)
(* getUpdates registered; TelegramService.getUpdates passes none.          *)
WaiterOptions(M, phoneNumber) == NoOptions

(* handleMessageUpdate 283-287 and 303-307: the routing, written out there *)
DeliverMessageUpdate(M, user, phoneNumber, update) ==
    IF user.updateMode = "webhook" /\ Truthy(user.webhookUrl)
    THEN SendWebhook(M, user, phoneNumber, update)
    ELSE BufferUpdate(M, phoneNumber, update)

(* UpdateManager.handleMessageUpdate.  convertToMessage throws on a        *)
(* malformed message, and the catch block (309-311) logs: in the album     *)
(* branch every message of the album is converted before generateUpdateId  *)
(* is reached (263, 272); in the single-message branch generateUpdateId    *)
(* has been evaluated when the message is converted (299-300).             *)
HandleMessageUpdate(M, user, phoneNumber, message, type, t) ==
    LET messageKey == <<phoneNumber, message.id, type>>
        M1 == [M EXCEPT !.processedMessages =
                            Append(@, [key |-> messageKey, timestamp |-> t])]
        M2 == IF Len(M1.processedMessages) > MAX_CACHE_SIZE
              THEN CleanupProcessedMessages(M1, t) ELSE M1
        messages == AlbumMessages(M2, message)
        M3 == HandleMediaAlbum(M2, message)
        M4 == NewUpdate(M3, user, phoneNumber, t)
        update_id == M4.lastUpdateId[phoneNumber]
    IN IF HasProcessed(M, messageKey) THEN M
       ELSE IF Len(messages) = 0 THEN M3
       ELSE IF Len(messages) > 1
               /\ ShouldIncludeUpdate("album", WaiterOptions(M3, phoneNumber))
       THEN (IF \E i \in DOMAIN messages : messages[i].malformed THEN M3
             ELSE DeliverMessageUpdate(M4, user, phoneNumber,
                      [update_id |-> update_id, kind |-> "album", messages |-> messages]))
       ELSE (IF message.malformed THEN GenerateUpdateId(M3, phoneNumber, t)
             ELSE DeliverMessageUpdate(M4, user, phoneNumber,
                      [update_id |-> update_id, kind |-> type, messages |-> <<message>>]))

(* The message handler of one closure (setupEventHandling 185-198) *)
MessageHandler(M, handler, phoneNumber, message, t) ==
    IF handler.messageHandler /\ ShouldIncludeUpdate(ResolveType(message), handler.options)
    THEN HandleMessageUpdate(M, handler.user, phoneNumber, message, ResolveType(message), t)
    ELSE M

(* A NewMessage event handed to every handler of the client, in the order  *)
(* added                                                                   *)
RECURSIVE DispatchMessage(_, _, _, _, _)
DispatchMessage(M, handlers, phoneNumber, message, t) ==
    IF handlers = <<>> THEN M
    ELSE DispatchMessage(MessageHandler(M, Head(handlers), phoneNumber, message, t),
                         Tail(handlers), phoneNumber, message, t)

(* The raw handler on an event whose payload lacks the fields its case     *)
(* dereferences; nothing catches an exception inside the handler.  The     *)
(* typing cases throw (99, 102) before the Update literal is begun; in the *)
(* status, delete and reaction cases generateUpdateId has been evaluated   *)
(* when the payload expression throws (78-80, 142-145, 157-159); the chat  *)
(* cases read every field through ?. and find no action.                   *)
RawHandlerThrows(M, user, options, phoneNumber, className, t) ==
    LET kind == KindOfClass(className)
    IN IF kind \in {"none", "chat_action"} THEN M
       ELSE IF ~ShouldIncludeUpdate(TypeOfKind(kind), options) THEN M
       ELSE IF kind = "typing_status" THEN [M EXCEPT !.escaped = @ + 1]
       ELSE [GenerateUpdateId(M, phoneNumber, t) EXCEPT !.escaped = @ + 1]

(* Such an event handed to the handlers of the client; goesOn: whether the *)
(* provider library calls the remaining handlers after one has thrown      *)
RECURSIVE DispatchThrows(_, _, _, _, _, _)
DispatchThrows(M, handlers, phoneNumber, className, goesOn, t) ==
    IF handlers = <<>> THEN M
    ELSE LET M1 == RawHandlerThrows(M, Head(handlers).user, Head(handlers).options,
                                    phoneNumber, className, t)
         IN IF M1.escaped > M.escaped /\ ~goesOn THEN M1
            ELSE DispatchThrows(M1, Tail(handlers), phoneNumber, className, goesOn, t)

(* A promise settles once: resolve on a settled promise has no effect *)
Resolve(M, call, result) ==
    IF M.promises[call].status = "pending"
    THEN [M EXCEPT !.promises[call].status = "resolved", !.promises[call].result = result]
    ELSE M

(* Array.prototype.slice(0, limit) *)
SliceTo(updates, limit) == SubSeq(updates, 1, Min(limit, Len(updates)))

(* getUpdates, had it lacked the timeout === 0 return *)
ManagerGetUpdatesAlwaysWaits(M, user, phoneNumber, offset, limit, timeout) ==
    LET call == Len(M.promises) + 1
        promise == [phoneNumber |-> phoneNumber, status |-> "pending",
                    result |-> <<>>, waited |-> FALSE]
        M1 == ClearHandlers(M, phoneNumber)
        bufferedUpdates == BufferedUpdates(M1, phoneNumber, offset)
        M2 == GetBufferedUpdates(M1, phoneNumber, offset)
    IN IF user.updateMode = "webhook"
       THEN [M EXCEPT !.promises = Append(@, [promise EXCEPT !.status = "rejected"])]
       ELSE IF Len(bufferedUpdates) > 0
       THEN [M2 EXCEPT !.promises = Append(@, [promise EXCEPT !.status = "resolved",
                                     !.result = SliceTo(bufferedUpdates, limit)])]
       ELSE [M2 EXCEPT !.promises = Append(@, [promise EXCEPT !.waited = TRUE]),
                       !.timers = @ \cup {call},
                       !.updateHandlers[phoneNumber] = [call |-> call, offset |-> offset]]

(* getUpdates, had it registered its waiter without clearHandlers first *)
ManagerGetUpdatesKeepsWaiter(M, user, phoneNumber, offset, limit, timeout) ==
    LET call == Len(M.promises) + 1
        promise == [phoneNumber |-> phoneNumber, status |-> "pending",
                    result |-> <<>>, waited |-> FALSE]
        bufferedUpdates == BufferedUpdates(M, phoneNumber, offset)
        M2 == GetBufferedUpdates(M, phoneNumber, offset)
    IN IF user.updateMode = "webhook"
       THEN [M EXCEPT !.promises = Append(@, [promise EXCEPT !.status = "rejected"])]
       ELSE IF Len(bufferedUpdates) > 0
       THEN [M2 EXCEPT !.promises = Append(@, [promise EXCEPT !.status = "resolved",
                                     !.result = SliceTo(bufferedUpdates, limit)])]
       ELSE IF timeout = 0
       THEN [M2 EXCEPT !.promises = Append(@, [promise EXCEPT !.status = "resolved"])]
       ELSE [M2 EXCEPT !.promises = Append(@, [promise EXCEPT !.waited = TRUE]),
                       !.timers = @ \cup {call},
                       !.updateHandlers[phoneNumber] = [call |-> call, offset |-> offset]]

(* UpdateManager.getUpdates, called for the user row of the request *)
ManagerGetUpdates(M, user, phoneNumber, offset, limit, timeout) ==
    LET call == Len(M.promises) + 1
        promise == [phoneNumber |-> phoneNumber, status |-> "pending",
                    result |-> <<>>, waited |-> FALSE]
        M1 == ClearHandlers(M, phoneNumber)
        bufferedUpdates == BufferedUpdates(M1, phoneNumber, offset)
        M2 == GetBufferedUpdates(M1, phoneNumber, offset)
    IN IF user.updateMode = "webhook"
       THEN [M EXCEPT !.promises = Append(@, [promise EXCEPT !.status = "rejected"])]
       ELSE IF Len(bufferedUpdates) > 0
       THEN [M2 EXCEPT !.promises = Append(@, [promise EXCEPT !.status = "resolved",
                                     !.result = SliceTo(bufferedUpdates, limit)])]
       ELSE IF timeout = 0
       THEN [M2 EXCEPT !.promises = Append(@, [promise EXCEPT !.status = "resolved"])]
       ELSE [M2 EXCEPT !.promises = Append(@, [promise EXCEPT !.waited = TRUE]),
                       !.timers = @ \cup {call},
                       !.updateHandlers[phoneNumber] = [call |-> call, offset |-> offset]]

----------------------------------------------------------------------------
(* TelegramService.  Its methods are async: a call runs until it awaits    *)
(* the network or the database, waits in `calls`, and goes on when that    *)
(* completes; other calls, events and timers run in between.  An await of  *)
(* a value that is already there (getClient returning at once,             *)
(* setupEventHandling, which awaits nothing) lets nothing else in.         *)
(* The awaits a call waits in, by the pc of the call:                      *)
(*   "route"      the database query of the route, before getClient        *)
(*   "update"     db.update of setWebhook (568) and of deleteWebhook (594) *)
(*   "findFirst"  the row setWebhook reads back (577)                      *)
(*   "connect"    client.connect() in getClient, client of the map (514)   *)
(*   "connectNew" client.connect() in getClient, new client (531)          *)
(*   "getMe"      client.getMe() in getClient, new client (536)            *)
(*   "connect2"   client.connect() in getUpdates (556)                     *)
(*   "login"      client.connect() in the login route (routes/auth.ts 91)  *)
(*   "disconnect" client.disconnect() in removeClient (610)                *)
(* A TelegramClient object is the map's while its key is in `clients`;     *)
(* `connected` and `eventHandlers` are its fields then.  When the map lets *)
(* go of it (clients.delete at 611, clients.set of another client at 539)  *)
(* the object lives on in `detached`, connected or not and with the        *)
(* closures added to it: its connection still delivers events, and a call  *)
(* that holds it goes on with it.                                          *)

(* A route call.  user is the row the call holds; held is the client it    *)
(* holds: "map" the one the map has for the account, "own" one it made and *)
(* has not put into the map, "stale" one the map has let go of since,      *)
(* which is detached[client]; up is client.connected of an "own" client.   *)
NewCall(route, phoneNumber, user) ==
    [route |-> route, phoneNumber |-> phoneNumber, user |-> user, pc |-> "start",
     held |-> "none", client |-> 0, up |-> FALSE,
     offset |-> Undefined, limit |-> 0, timeout |-> 0]

(* this.clients.has(key) *)
HasClient(M, key) == \E i \in DOMAIN M.clients : M.clients[i] = key

(* The call waits in the await at pc *)
Await(M, call, pc) == [M EXCEPT !.calls = Append(@, [call EXCEPT !.pc = pc])]

(* The call at position i leaves its await *)
Resume(M, i) ==
    [M EXCEPT !.calls = [j \in 1..(Len(@) - 1) |-> IF j < i THEN @[j] ELSE @[j + 1]]]

(* client.connected of the client the call holds *)
Connected(M, call) ==
    CASE call.held = "map" -> M.connected[call.phoneNumber]
      [] call.held = "stale" -> M.detached[call.client].connected
      [] OTHER -> call.up

(* The map lets go of the client it has for key: the object stays as it    *)
(* is, and the calls that hold it go on holding it                         *)
Detach(M, key) ==
    LET n == Len(M.detached) + 1
    IN IF ~HasClient(M, key) THEN M
       ELSE [M EXCEPT
               !.detached = Append(@, [phoneNumber |-> key,
                                       connected |-> M.connected[key],
                                       eventHandlers |-> M.eventHandlers[key]]),
               !.calls = [i \in DOMAIN @ |->
                   IF @[i].phoneNumber = key /\ @[i].held = "map"
                   THEN [@[i] EXCEPT !.held = "stale", !.client = n]
                   ELSE @[i]],
               !.connected[key] = FALSE,
               !.eventHandlers[key] = <<>>]

(* updateManager.setupEventHandling(user, client) for the client the call  *)
(* holds: the waiter and the buffer of the account are cleared, and the    *)
(* closure is added to that client, in the map or not                      *)
SetupFor(M, call) ==
    IF call.held = "map"
    THEN SetupEventHandling(M, call.user, call.phoneNumber, NoOptions)
    ELSE [ClearHandlers(M, call.phoneNumber) EXCEPT
             !.detached[call.client].eventHandlers =
                 Append(@, HandlerClosure(call.user, NoOptions))]

(* The caller's code after `await this.getClient(...)` has returned the    *)
(* client: the login route, which calls client.connect() itself            *)
(* (routes/auth.ts 91), getUpdates (554-561), setWebhook (587),            *)
(* deleteWebhook (604)                                                     *)
AfterGetClient(M, call) ==
    CASE call.route = "login" -> Await(M, call, "login")
      [] call.route = "getUpdates" ->
            IF ~Connected(M, call) THEN Await(M, call, "connect2")
            ELSE ManagerGetUpdates(M, call.user, call.phoneNumber, call.offset,
                                   call.limit, call.timeout)
      [] OTHER -> SetupFor(M, call)

(* TelegramService.getClient(call.user), as far as its first await; when   *)
(* it returns the connected client of the map at once, on into the caller  *)
GetClient(M, call) ==
    IF HasClient(M, call.phoneNumber)
    THEN LET c == [call EXCEPT !.held = "map"]
         IN IF ~M.connected[call.phoneNumber] THEN Await(M, c, "connect")
            ELSE AfterGetClient(M, c)
    ELSE Await(M, [call EXCEPT !.held = "own"], "connectNew")

(* client.connect() of the client the call holds has resolved, with or     *)
(* without a connection (connect() of the provider library resolves        *)
(* without one when the client is already reconnecting)                    *)
ClientConnected(M, call, ok) ==
    CASE call.held = "map" -> [M EXCEPT !.connected[call.phoneNumber] = @ \/ ok]
      [] call.held = "stale" -> [M EXCEPT !.detached[call.client].connected = @ \/ ok]
      [] OTHER -> M

(* `await client.connect()` of the call has resolved and the call goes on  *)
(* as far as its next await: setupEventHandling for the client it holds    *)
(* (getClient 516, getUpdates 558)                                         *)
ConnectContinued(M, call, ok) == SetupFor(ClientConnected(M, call, ok), call)

(* `await setupEventHandling` of the call has resolved: getClient returns  *)
(* into its caller (518), getUpdates goes on at 561                        *)
SetupReturned(M, call) ==
    IF call.pc = "connect" THEN AfterGetClient(M, call)
    ELSE ManagerGetUpdates(M, call.user, call.phoneNumber, call.offset,
                           call.limit, call.timeout)

(* `await client.connect()` of the call has resolved, with or without a    *)
(* connection, and the call goes on as far as its next await: getClient    *)
(* 514-518, getUpdates 556-561; getClient 531-536, where the call waits    *)
(* for getMe next; the login route (routes/auth.ts 91), which sets up no   *)
(* event handling                                                          *)
ConnectResolved(M, call, ok) ==
    CASE call.pc \in {"connect", "connect2"} ->
             SetupReturned(ConnectContinued(M, call, ok), call)
      [] call.pc = "connectNew" ->
             Await(M, [call EXCEPT !.up = ok], "getMe")
      [] call.pc = "login" -> ClientConnected(M, call, ok)

(* `await client.getMe()` of a new client has resolved: getClient puts the *)
(* client into the map, in place of one that another call has put there    *)
(* since and that the map lets go of, sets up its event handling and       *)
(* returns it (536-544)                                                    *)
GetMeResolved(M, call) ==
    LET key == call.phoneNumber
        M2 == Detach(M, key)
        M3 == [M2 EXCEPT
                 !.clients = IF HasClient(M, key) THEN @ ELSE Append(@, key),
                 !.connected[key] = call.up]
        held == [call EXCEPT !.held = "map"]
    IN AfterGetClient(SetupFor(M3, held), held)

(* TelegramService.getUpdates, as far as its first await *)
ServiceGetUpdates(M, user, phoneNumber, offset, limit, timeout) ==
    GetClient(M, [NewCall("getUpdates", phoneNumber, user) EXCEPT
                     !.offset = offset, !.limit = limit, !.timeout = timeout])

(* TelegramService.removeClient, as far as `await client.disconnect()`:    *)
(* the connection is taken down                                            *)
RemoveClient(M, call) ==
    IF HasClient(M, call.phoneNumber)
    THEN Await([M EXCEPT !.connected[call.phoneNumber] = FALSE],
               [call EXCEPT !.held = "map"], "disconnect")
    ELSE M

(* TelegramService.disconnectAll at the top of its loop: the iterator of   *)
(* the map yields the first key that is left                               *)
DisconnectAllLoop(M, call) ==
    IF M.clients = <<>> THEN M
    ELSE RemoveClient(M, [call EXCEPT !.phoneNumber = Head(M.clients)])

(* `await client.disconnect()` has resolved: removeClient deletes the key  *)
(* (611), whichever client the map has for it by now, and disconnectAll    *)
(* goes round its loop                                                     *)
DisconnectResolved(M, call) ==
    LET key == call.phoneNumber
        M1 == Detach(M, key)
        M2 == [M1 EXCEPT !.clients = SelectSeq(@, LAMBDA k : k # key)]
    IN IF call.route = "disconnectAll" THEN DisconnectAllLoop(M2, call) ELSE M2

(* The timeout callback, had it resolved without deleting the waiter *)
TimeoutCallbackKeepsHandler(M, phoneNumber, call) ==
    Resolve([M EXCEPT !.timers = @ \ {call}], call, <<>>)

(* The timeout callback armed by getUpdates for a call of phoneNumber *)
TimeoutCallback(M, phoneNumber, call) ==
    Resolve([M EXCEPT !.timers = @ \ {call},
                      !.updateHandlers[phoneNumber] = NoHandler], call, <<>>)

(* isLastAttempt, had it compared with maxRetries - 1 *)
IsLastAttemptOffByOne(attempt) == attempt = maxRetries - 1

(* sendWebhook: attempt === maxRetries *)
IsLastAttempt(attempt) == attempt = maxRetries

(* Math.pow(2, attempt) *)
Pow2(attempt) == 2 ^ attempt

(* The first attempt whose 2^attempt * 1000 reaches maxBackoffTime: from   *)
(* it on Math.min returns maxBackoffTime whatever the power and the jitter *)
FirstCapped ==
    CHOOSE n \in 0..maxRetries :
        /\ Pow2(n) * 1000 >= maxBackoffTime
        /\ \A m \in 0..(n - 1) : Pow2(m) * 1000 < maxBackoffTime

(* backoffTime, had it lacked the Math.min with maxBackoffTime *)
BackoffTimeUncapped(attempt, jitter) ==
    jitter + Pow2(Min(attempt, FirstCapped)) * 1000

(* sendWebhook: the backoff after failed attempt `attempt`,                *)
(* Math.min(jitter + Math.pow(2, attempt) * 1000, maxBackoffTime);         *)
(* jitter = Math.floor(Math.random() * 200)                                *)
BackoffTime(attempt, jitter) ==
    IF attempt >= FirstCapped THEN maxBackoffTime
    ELSE Min(jitter + Pow2(attempt) * 1000, maxBackoffTime)

----------------------------------------------------------------------------
(* Actions *)

(* Raw events, requests and connection drops so far, against MaxOps *)
Ops(M) == rawEvents + M.requests

Unfinished == {d \in 1..Len(deliveries) :
                  deliveries[d].phase \in {"fetch", "body", "backoff"}}

(* The provider client of account a emits a raw event, elapsed ms after   *)
(* the previous one                                                        *)
RawEvent(a, className, chatAction, elapsed) ==
    /\ connected[a]
    /\ Ops(Manager) < MaxOps
    /\ now' = now + elapsed
    /\ Commit(Dispatch(Manager, eventHandlers[a], a, className, chatAction, now'))
    /\ rawEvents' = rawEvents + 1
    /\ UNCHANGED users

(* A client the map has let go of emits a raw event over the connection    *)
(* it still has                                                            *)
DetachedRawEvent(n, className, chatAction, elapsed) ==
    /\ n \in DOMAIN detached
    /\ detached[n].connected
    /\ Ops(Manager) < MaxOps
    /\ now' = now + elapsed
    /\ Commit(Dispatch(Manager, detached[n].eventHandlers, detached[n].phoneNumber,
                       className, chatAction, now'))
    /\ rawEvents' = rawEvents + 1
    /\ UNCHANGED users

(* The provider client of account a emits a NewMessage event *)
MessageEvent(a, id, groupedId, editDate, post, elapsed) ==
    /\ connected[a]
    /\ Ops(Manager) < MaxOps
    /\ now' = now + elapsed
    /\ LET message == [id |-> id, groupedId |-> groupedId, editDate |-> editDate,
                       post |-> post, stream |-> a, malformed |-> FALSE]
           M == DispatchMessage(Manager, eventHandlers[a], a, message, now')
       IN Commit([M EXCEPT !.observed = Append(@,
                     [key |-> <<a, id, ResolveType(message)>>, time |-> now',
                      updates |-> Len(M.produced) - Len(produced),
                      groupedId |-> groupedId,
                      timer |-> IF M.armed > armed THEN M.armed ELSE 0])])
    /\ rawEvents' = rawEvents + 1
    /\ UNCHANGED users

(* The provider client of account a emits a raw event whose payload lacks  *)
(* the fields its case dereferences                                        *)
FaultyRawEvent(a, className, goesOn) ==
    /\ connected[a]
    /\ Ops(Manager) < MaxOps
    /\ Commit(DispatchThrows(Manager, eventHandlers[a], a, className, goesOn, now))
    /\ rawEvents' = rawEvents + 1
    /\ UNCHANGED <<now, users>>

(* The provider client of account a emits a NewMessage event whose         *)
(* message convertToMessage throws on                                      *)
FaultyMessageEvent(a, id, groupedId) ==
    /\ connected[a]
    /\ Ops(Manager) < MaxOps
    /\ LET message == [id |-> id, groupedId |-> groupedId, editDate |-> FALSE,
                       post |-> FALSE, stream |-> a, malformed |-> TRUE]
           M == DispatchMessage(Manager, eventHandlers[a], a, message, now)
       IN Commit([M EXCEPT !.observed = Append(@,
                     [key |-> <<a, id, ResolveType(message)>>, time |-> now,
                      updates |-> Len(M.produced) - Len(produced),
                      groupedId |-> groupedId,
                      timer |-> IF M.armed > armed THEN M.armed ELSE 0])])
    /\ rawEvents' = rawEvents + 1
    /\ UNCHANGED <<now, users>>

(* An album debounce timer fires *)
AlbumTimerFires(timer) ==
    /\ timer \in albumTimers
    /\ Commit(AlbumTimerCallback(Manager, timer))
    /\ UNCHANGED <<now, users, rawEvents>>

(* POST /getUpdates arrives with the row the middleware read: the call    *)
(* runs as far as its first await, to its end when the client is connected *)
GetUpdates(a, offset, limit, timeout) ==
    /\ Ops(Manager) < MaxOps
    /\ Commit(ServiceGetUpdates([Manager EXCEPT !.requests = @ + 1], users[a], a,
                                offset, limit, timeout))
    /\ Len(calls') <= MaxWaiting
    /\ UNCHANGED <<now, users, rawEvents>>

(* The long-poll timer of a pending call fires *)
TimeoutFires(call) ==
    /\ call \in timers
    /\ Commit(TimeoutCallback(Manager, promises[call].phoneNumber, call))
    /\ UNCHANGED <<now, users, rawEvents>>

(* The connection of the client the map has for an account drops *)
Disconnect(a) ==
    /\ connected[a]
    /\ Ops(Manager) < MaxOps
    /\ Commit([Manager EXCEPT !.connected[a] = FALSE, !.requests = @ + 1])
    /\ UNCHANGED <<now, users, rawEvents>>

(* The connection of a client the map has let go of drops *)
DetachedDisconnect(n) ==
    /\ n \in DOMAIN detached
    /\ detached[n].connected
    /\ Ops(Manager) < MaxOps
    /\ Commit([Manager EXCEPT !.detached[n].connected = FALSE, !.requests = @ + 1])
    /\ UNCHANGED <<now, users, rawEvents>>

(* POST /auth/login (routes/auth.ts 70-91) arrives: the request waits for  *)
(* the row its insert returns                                              *)
Reconnect(a) ==
    /\ Ops(Manager) < MaxOps
    /\ Commit(Await([Manager EXCEPT !.requests = @ + 1],
                    NewCall("login", a, users[a]), "route"))
    /\ Len(calls') <= MaxWaiting
    /\ UNCHANGED <<now, users, rawEvents>>

(* The database has answered and the route handler calls getClient with    *)
(* the row the request holds                                               *)
RouteReached(i) ==
    /\ i \in DOMAIN calls
    /\ calls[i].pc = "route"
    /\ Commit(GetClient(Resume(Manager, i), calls[i]))
    /\ UNCHANGED <<now, users, rawEvents>>

(* `await client.connect()` of a waiting call resolves *)
ConnectDone(i, ok) ==
    /\ i \in DOMAIN calls
    /\ calls[i].pc \in {"connect", "connect2", "connectNew", "login"}
    /\ Commit(ConnectResolved(Resume(Manager, i), calls[i], ok))
    /\ UNCHANGED <<now, users, rawEvents>>

(* `await client.getMe()` of a waiting call resolves: the provider has     *)
(* answered over the connection of the new client                          *)
GetMeDone(i) ==
    /\ i \in DOMAIN calls
    /\ calls[i].pc = "getMe"
    /\ calls[i].up
    /\ Commit(GetMeResolved(Resume(Manager, i), calls[i]))
    /\ UNCHANGED <<now, users, rawEvents>>

(* client.connect() or client.getMe() of a waiting call rejects: the       *)
(* exception leaves getClient and the method that called it, and the call  *)
(* ends where it stands                                                    *)
Rejected(i) ==
    /\ i \in DOMAIN calls
    /\ calls[i].pc \in {"connect", "connect2", "connectNew", "getMe", "login"}
    /\ Commit(Resume(Manager, i))
    /\ UNCHANGED <<now, users, rawEvents>>

(* The connect() promises of two calls that wait for the same client       *)
(* resolve on the same event.  The continuations run in the order  *)
(* of the microtask queue: each call's setupEventHandling first, in the    *)
(* order the calls began to wait; then what follows                        *)
(* `await setupEventHandling`: a call in getUpdates (558) is at            *)
(* updateManager.getUpdates (561) at once, a call in getClient (516) has   *)
(* to return into its caller first and runs after it                       *)
ConnectDoneTogether(i, j, ok) ==
    /\ i \in DOMAIN calls /\ j \in DOMAIN calls /\ i < j
    /\ calls[i].pc \in {"connect", "connect2"}
    /\ calls[j].pc \in {"connect", "connect2"}
    /\ calls[i].phoneNumber = calls[j].phoneNumber
    /\ calls[i].held \in {"map", "stale"}
    /\ calls[i].held = calls[j].held /\ calls[i].client = calls[j].client
    /\ LET first == IF calls[i].pc = "connect" /\ calls[j].pc = "connect2" THEN j ELSE i
           second == IF first = i THEN j ELSE i
           M0 == Resume(Resume(Manager, j), i)
           M1 == ConnectContinued(M0, calls[i], ok)
           M2 == ConnectContinued(M1, calls[j], ok)
           M3 == SetupReturned(M2, calls[first])
       IN Commit(SetupReturned(M3, calls[second]))
    /\ UNCHANGED <<now, users, rawEvents>>

(* The row db.update(users).set({webhookUrl: url, webhookSecret: secret,   *)
(* updateMode: "webhook"}) leaves: set() skips a value that is undefined,  *)
(* so without a secret the column keeps what it has                        *)
WebhookRow(row, url, secret) ==
    [updateMode |-> "webhook", webhookUrl |-> url,
     webhookSecret |-> IF secret = Null THEN row.webhookSecret ELSE secret]

(* TelegramService.setWebhook as far as its first await: db.update is     *)
(* issued and writes the row (568-574)                                     *)
SetWebhook(a, url, secret) ==
    /\ Ops(Manager) < MaxOps
    /\ users' = [users EXCEPT ![a] = WebhookRow(@, url, secret)]
    /\ Commit(Await([Manager EXCEPT !.requests = @ + 1],
                    NewCall("setWebhook", a, users[a]), "update"))
    /\ Len(calls') <= MaxWaiting
    /\ UNCHANGED <<now, rawEvents>>

(* TelegramService.deleteWebhook as far as the row is written (594-600);   *)
(* `user` is the row read for the request, before the update               *)
DeleteWebhook(a) ==
    /\ Ops(Manager) < MaxOps
    /\ users' = [users EXCEPT ![a] = DefaultRow]
    /\ Commit(Await([Manager EXCEPT !.requests = @ + 1],
                    NewCall("deleteWebhook", a, users[a]), "update"))
    /\ Len(calls') <= MaxWaiting
    /\ UNCHANGED <<now, rawEvents>>

(* The database answers a waiting call.  setWebhook: after db.update the   *)
(* call issues findFirst and waits again (577); after findFirst it has the *)
(* row it read back (577-579) and goes on with it.  deleteWebhook: after   *)
(* db.update the call goes on with the row it was called with (603)        *)
QueryDone(i) ==
    /\ i \in DOMAIN calls
    /\ calls[i].pc \in {"update", "findFirst"}
    /\ LET call == calls[i]
           M == Resume(Manager, i)
       IN Commit(CASE call.pc = "update" /\ call.route = "setWebhook" ->
                         Await(M, call, "findFirst")
                   [] call.pc = "findFirst" ->
                         GetClient(M, [call EXCEPT !.user = users[call.phoneNumber]])
                   [] OTHER -> GetClient(M, call))
    /\ UNCHANGED <<now, users, rawEvents>>

(* TelegramService.removeClient(a) is called *)
RemoveClientCall(a) ==
    /\ HasClient(Manager, a)
    /\ Ops(Manager) < MaxOps
    /\ Commit(RemoveClient([Manager EXCEPT !.requests = @ + 1],
                           NewCall("removeClient", a, users[a])))
    /\ Len(calls') <= MaxWaiting
    /\ UNCHANGED <<now, users, rawEvents>>

(* TelegramService.disconnectAll() is called *)
DisconnectAll ==
    /\ clients # <<>>
    /\ Ops(Manager) < MaxOps
    /\ Commit(DisconnectAllLoop([Manager EXCEPT !.requests = @ + 1],
                                NewCall("disconnectAll", Head(clients), DefaultRow)))
    /\ Len(calls') <= MaxWaiting
    /\ UNCHANGED <<now, users, rawEvents>>

(* `await client.disconnect()` of a waiting call resolves *)
DisconnectDone(i) ==
    /\ i \in DOMAIN calls
    /\ calls[i].pc = "disconnect"
    /\ Commit(DisconnectResolved(Resume(Manager, i), calls[i]))
    /\ UNCHANGED <<now, users, rawEvents>>

(* AttemptOk, had the loop gone on to post once more after the 2xx *)
AttemptOkPostsAgain(d) ==
    /\ d \in 1..Len(deliveries)
    /\ deliveries[d].phase = "fetch"
    /\ deliveries' = [deliveries EXCEPT ![d].phase = "delivered", ![d].posts = @ + 1]
    /\ UNCHANGED <<now, users, connected, clients, detached, calls, requests,
                   eventHandlers, lastUpdateId, updateBuffers,
                   updateHandlers, timers, promises, processedMessages, pendingAlbums,
                   albumTimers, issued, produced, buffered, armed, observed, fired,
                   escaped, rawEvents>>

(* sendWebhook: the pending POST of delivery d is answered with a 2xx *)
AttemptOk(d) ==
    /\ d \in 1..Len(deliveries)
    /\ deliveries[d].phase = "fetch"
    /\ deliveries' = [deliveries EXCEPT ![d].phase = "delivered"]
    /\ UNCHANGED <<now, users, connected, clients, detached, calls, requests,
                   eventHandlers, lastUpdateId, updateBuffers,
                   updateHandlers, timers, promises, processedMessages, pendingAlbums,
                   albumTimers, issued, produced, buffered, armed, observed, fired,
                   escaped, rawEvents>>

(* What a sendWebhook call that goes on after an await can reach of the    *)
(* manager: its own loop variables, and the buffers through `this`         *)
Sender == [deliveries |-> deliveries, updateBuffers |-> updateBuffers]

(* The catch block, had the update of a delivery that is given up been    *)
(* put into the poll buffer                                                *)
SendWebhookCatchKeepsUpdate(M, d, cause, jitter) ==
    LET delivery == M.deliveries[d]
    IN IF IsLastAttempt(delivery.attempt)
       THEN [M EXCEPT !.deliveries[d].phase = "exhausted",
                      !.updateBuffers[delivery.phoneNumber] = Append(@, delivery.update)]
       ELSE [M EXCEPT !.deliveries[d].phase = "backoff",
                      !.deliveries[d].backoffTime = BackoffTime(delivery.attempt, jitter)]

(* The catch block, had an aborted attempt been posted again at once *)
SendWebhookCatchRetriesTimeout(M, d, cause, jitter) ==
    LET delivery == M.deliveries[d]
    IN IF cause = "timeout"
       THEN [M EXCEPT !.deliveries[d].posts = @ + 1, !.deliveries[d].phase = "fetch"]
       ELSE IF IsLastAttempt(delivery.attempt)
       THEN [M EXCEPT !.deliveries[d].phase = "exhausted"]
       ELSE [M EXCEPT !.deliveries[d].phase = "backoff",
                      !.deliveries[d].backoffTime = BackoffTime(delivery.attempt, jitter)]

(* sendWebhook: the catch block (345-374) for the failed attempt of        *)
(* delivery d: the last attempt gives the update up, any other arms the    *)
(* backoff timer; jitter = Math.floor(Math.random() * 200)                 *)
SendWebhookCatch(M, d, cause, jitter) ==
    LET delivery == M.deliveries[d]
    IN IF IsLastAttempt(delivery.attempt)
       THEN [M EXCEPT !.deliveries[d].phase = "exhausted"]
       ELSE [M EXCEPT !.deliveries[d].phase = "backoff",
                      !.deliveries[d].backoffTime = BackoffTime(delivery.attempt, jitter)]

(* sendWebhook: the pending POST of delivery d fails.  A transport error   *)
(* and the abort after baseTimeout reject fetch, and the catch block runs. *)
(* A non-2xx response resolves it: the abort timer is cleared (339) and    *)
(* the call waits for response.text() (343), with nothing to end the wait  *)
AttemptFail(d, cause, jitter) ==
    /\ d \in 1..Len(deliveries)
    /\ deliveries[d].phase = "fetch"
    /\ LET M == IF cause = "status"
                THEN [Sender EXCEPT !.deliveries[d].phase = "body"]
                ELSE SendWebhookCatch(Sender, d, cause, jitter)
       IN /\ deliveries' = M.deliveries
          /\ updateBuffers' = M.updateBuffers
    /\ UNCHANGED <<now, users, connected, clients, detached, calls, requests,
                   eventHandlers, lastUpdateId,
                   updateHandlers, timers, promises, processedMessages, pendingAlbums,
                   albumTimers, issued, produced, buffered, armed, observed, fired,
                   escaped, rawEvents>>

(* sendWebhook: response.text() of the non-2xx response of delivery d      *)
(* settles, the Error is thrown (343) and the catch block runs             *)
BodyRead(d, jitter) ==
    /\ d \in 1..Len(deliveries)
    /\ deliveries[d].phase = "body"
    /\ LET M == SendWebhookCatch(Sender, d, "status", jitter)
       IN /\ deliveries' = M.deliveries
          /\ updateBuffers' = M.updateBuffers
    /\ UNCHANGED <<now, users, connected, clients, detached, calls, requests,
                   eventHandlers, lastUpdateId,
                   updateHandlers, timers, promises, processedMessages, pendingAlbums,
                   albumTimers, issued, produced, buffered, armed, observed, fired,
                   escaped, rawEvents>>

(* BackoffElapsed, had the next attempt read the account's current row *)
BackoffElapsedRereadsUser(d) ==
    /\ d \in 1..Len(deliveries)
    /\ deliveries[d].phase = "backoff"
    /\ LET attempt == deliveries[d].attempt + 1
           user == users[deliveries[d].phoneNumber]
       IN deliveries' = [deliveries EXCEPT ![d] =
             IF attempt <= maxRetries
             THEN [@ EXCEPT !.attempt = attempt, !.posts = @ + 1, !.phase = "fetch",
                            !.request = FetchRequest(user.webhookUrl, user.webhookSecret,
                                                     deliveries[d].update)]
             ELSE [@ EXCEPT !.attempt = attempt, !.phase = "exhausted"]]
    /\ UNCHANGED <<now, users, connected, clients, detached, calls, requests,
                   eventHandlers, lastUpdateId, updateBuffers,
                   updateHandlers, timers, promises, processedMessages, pendingAlbums,
                   albumTimers, issued, produced, buffered, armed, observed, fired,
                   escaped, rawEvents>>

(* sendWebhook: the backoff timer of delivery d elapses; attempt++ and the *)
(* loop condition attempt <= maxRetries; the next attempt is posted for    *)
(* the same `user` and `update`                                            *)
BackoffElapsed(d) ==
    /\ d \in 1..Len(deliveries)
    /\ deliveries[d].phase = "backoff"
    /\ LET attempt == deliveries[d].attempt + 1
       IN deliveries' = [deliveries EXCEPT ![d] =
             IF attempt <= maxRetries
             THEN [@ EXCEPT !.attempt = attempt, !.posts = @ + 1, !.phase = "fetch",
                            !.request = FetchRequest(deliveries[d].url, deliveries[d].secret,
                                                     deliveries[d].update)]
             ELSE [@ EXCEPT !.attempt = attempt, !.phase = "exhausted"]]
    /\ UNCHANGED <<now, users, connected, clients, detached, calls, requests,
                   eventHandlers, lastUpdateId, updateBuffers,
                   updateHandlers, timers, promises, processedMessages, pendingAlbums,
                   albumTimers, issued, produced, buffered, armed, observed, fired,
                   escaped, rawEvents>>

----------------------------------------------------------------------------
(* The engine: every account starts with the default row and the handlers  *)
(* installed by initializeAllClients.  The webhook receiver answers every  *)
(* POST in the 2xx range here; failing receivers are followed under        *)
(* SpecWebhook.                                                            *)

(* The closure added by initializeAllClients, which passes no options *)
StartupHandler(user) == [user |-> user, options |-> NoOptions, messageHandler |-> TRUE]

Init ==
    /\ now = 1
    /\ users = [a \in Accounts |-> DefaultRow]
    /\ connected = [a \in Accounts |-> TRUE]
    /\ clients = StartupClients
    /\ detached = <<>>
    /\ calls = <<>>
    /\ requests = 0
    /\ eventHandlers = [a \in Accounts |-> <<StartupHandler(DefaultRow)>>]
    /\ lastUpdateId = [a \in Accounts |-> 0]
    /\ updateBuffers = [a \in Accounts |-> <<>>]
    /\ updateHandlers = [a \in Accounts |-> NoHandler]
    /\ timers = {}
    /\ promises = <<>>
    /\ deliveries = <<>>
    /\ processedMessages = <<>>
    /\ pendingAlbums = [g \in GroupIds |-> NoAlbum]
    /\ albumTimers = {}
    /\ issued = [a \in Accounts |-> <<>>]
    /\ produced = <<>>
    /\ buffered = [a \in Accounts |-> <<>>]
    /\ armed = 0
    /\ observed = <<>>
    /\ fired = {}
    /\ escaped = 0
    /\ rawEvents = 0

FailureCauses == {"status", "transport", "timeout"}

(* The getUpdates requests drawn under Spec: <<offset, limit, timeout>> *)
SamplePolls == {<<Undefined, 100, 0>>, <<Undefined, 100, 30>>, <<0, 1, 30>>,
                <<2, 1, 30>>, <<2, 100, 0>>}

Next ==
    \/ \E a \in Accounts, event \in SampleEvents :
          RawEvent(a, event[1], event[2], event[3])
    \/ \E a \in Accounts, poll \in SamplePolls :
          GetUpdates(a, poll[1], poll[2], poll[3])
    \/ \E call \in timers : TimeoutFires(call)
    \/ \E n \in DOMAIN detached, event \in SampleEvents :
          DetachedRawEvent(n, event[1], event[2], event[3])
    \/ \E a \in Accounts : Disconnect(a)
    \/ \E n \in DOMAIN detached : DetachedDisconnect(n)
    \/ \E a \in Accounts : Reconnect(a)
    \/ \E i \in DOMAIN calls : RouteReached(i)
    \/ \E i \in DOMAIN calls, ok \in BOOLEAN : ConnectDone(i, ok)
    \/ \E i, j \in DOMAIN calls, ok \in BOOLEAN : ConnectDoneTogether(i, j, ok)
    \/ \E i \in DOMAIN calls : GetMeDone(i)
    \/ \E i \in DOMAIN calls : Rejected(i)
    \/ \E a \in Accounts, url \in Urls : SetWebhook(a, url, Secret)
    \/ \E a \in Accounts : DeleteWebhook(a)
    \/ \E i \in DOMAIN calls : QueryDone(i)
    \/ \E a \in Accounts : RemoveClientCall(a)
    \/ DisconnectAll
    \/ \E i \in DOMAIN calls : DisconnectDone(i)
    \/ \E d \in Unfinished : AttemptOk(d)

Spec == Init /\ [][Next]_vars

----------------------------------------------------------------------------
(* The engine on NewMessage events: dedup, album assembly and routing.     *)

(* The messages drawn: <<id, groupedId, editDate, post>> *)
SampleMessages == {<<1, NoGroup, FALSE, FALSE>>,
                   <<1, 7, FALSE, FALSE>>, <<2, 7, FALSE, FALSE>>}

NextMessages ==
    \/ \E a \in Accounts, m \in SampleMessages :
          MessageEvent(a, m[1], m[2], m[3], m[4], 0)
    \/ \E a \in Accounts : RawEvent(a, "UpdateUserStatus", FALSE, 0)
    \/ \E timer \in albumTimers : AlbumTimerFires(timer)
    \/ \E a \in Accounts, timeout \in Timeouts :
          GetUpdates(a, Undefined, 100, timeout)
    \/ \E a \in Accounts, url \in Urls : SetWebhook(a, url, Secret)
    \/ \E i \in DOMAIN calls : QueryDone(i)

SpecMessages == Init /\ [][NextMessages]_vars

----------------------------------------------------------------------------
(* The dedup cache at capacity: account a1 has received the messages       *)
(* 1..MAX_CACHE_SIZE at time 1, each of which produced an Update, and a     *)
(* getUpdates call has emptied its buffer. The histories of ids, Updates   *)
(* and calls start here.                                                   *)

Burst == [i \in 1..MAX_CACHE_SIZE |-> <<"a1", i, "message">>]

InitDedup ==
    /\ now = 1
    /\ users = [a \in Accounts |-> DefaultRow]
    /\ connected = [a \in Accounts |-> TRUE]
    /\ clients = StartupClients
    /\ detached = <<>>
    /\ calls = <<>>
    /\ requests = 0
    /\ eventHandlers = [a \in Accounts |-> <<StartupHandler(DefaultRow)>>]
    /\ lastUpdateId = [a \in Accounts |-> IF a = "a1" THEN 1 + MAX_CACHE_SIZE ELSE 0]
    /\ updateBuffers = [a \in Accounts |-> <<>>]
    /\ updateHandlers = [a \in Accounts |-> NoHandler]
    /\ timers = {}
    /\ promises = <<>>
    /\ deliveries = <<>>
    /\ processedMessages = [i \in 1..MAX_CACHE_SIZE |-> [key |-> Burst[i], timestamp |-> 1]]
    /\ pendingAlbums = [g \in GroupIds |-> NoAlbum]
    /\ albumTimers = {}
    /\ issued = [a \in Accounts |-> <<>>]
    /\ produced = <<>>
    /\ buffered = [a \in Accounts |-> <<>>]
    /\ armed = 0
    /\ observed = [i \in 1..MAX_CACHE_SIZE |->
                      [key |-> Burst[i], time |-> 1, updates |-> 1,
                       groupedId |-> NoGroup, timer |-> 0]]
    /\ fired = {}
    /\ escaped = 0
    /\ rawEvents = 0

(* The messages drawn: two of the burst again and a new one; they arrive   *)
(* a millisecond later or after the TTL has passed                         *)
DedupIds == {1, 2, MAX_CACHE_SIZE + 1}
DedupElapsed == {1, MESSAGE_CACHE_TTL + 1}

NextDedup ==
    \E id \in DedupIds, elapsed \in DedupElapsed :
        MessageEvent("a1", id, NoGroup, FALSE, FALSE, elapsed)

SpecDedup == InitDedup /\ [][NextDedup]_vars

----------------------------------------------------------------------------
(* Events whose normalization throws, among events that are well formed.   *)

(* The classes of the malformed raw events drawn *)
FaultyClasses == {"UpdateUserStatus", "UpdateUserTyping"}

NextFaults ==
    \/ \E a \in Accounts : RawEvent(a, "UpdateUserStatus", FALSE, 0)
    \/ \E a \in Accounts : MessageEvent(a, 1, NoGroup, FALSE, FALSE, 0)
    \/ \E a \in Accounts, className \in FaultyClasses, goesOn \in BOOLEAN :
          FaultyRawEvent(a, className, goesOn)
    \/ \E a \in Accounts, groupedId \in {NoGroup} \cup GroupIds :
          FaultyMessageEvent(a, 2, groupedId)
    \/ \E a \in Accounts, groupedId \in GroupIds :
          MessageEvent(a, 3, groupedId, FALSE, FALSE, 0)
    \/ \E a \in Accounts : GetUpdates(a, Undefined, 100, 30)

SpecFaults == Init /\ [][NextFaults]_vars

----------------------------------------------------------------------------
(* Every kind of operation side by side: events, calls, mode switches,     *)
(* timers and the steps of webhook deliveries to a receiver that fails     *)
(* MaxFailures attempts at most.                                           *)

(* The attempts of the deliveries ds that have failed so far *)
RECURSIVE FailedIn(_)
FailedIn(ds) ==
    IF ds = <<>> THEN 0
    ELSE Head(ds).attempt
         + (IF Head(ds).phase \in {"body", "backoff", "exhausted"} THEN 1 ELSE 0)
         + FailedIn(Tail(ds))

FailedAttempts == FailedIn(deliveries)

NextFrame ==
    \/ \E a \in Accounts : RawEvent(a, "UpdateUserStatus", FALSE, 0)
    \/ \E a \in Accounts : MessageEvent(a, 1, NoGroup, FALSE, FALSE, 0)
    \/ \E a \in Accounts, timeout \in Timeouts : GetUpdates(a, Undefined, 100, timeout)
    \/ \E call \in timers : TimeoutFires(call)
    \/ \E a \in Accounts, url \in Urls : SetWebhook(a, url, Secret)
    \/ \E a \in Accounts : DeleteWebhook(a)
    \/ \E i \in DOMAIN calls : QueryDone(i)
    \/ \E d \in Unfinished : AttemptOk(d)
    \/ \E d \in Unfinished :
          FailedAttempts < MaxFailures /\ AttemptFail(d, "status", 0)
    \/ \E d \in Unfinished : BodyRead(d, 0)
    \/ \E d \in Unfinished : BackoffElapsed(d)

SpecFrame == Init /\ [][NextFrame]_vars

(* The state after startup once the connection of one client has dropped *)
InitDropped ==
    /\ now = 1
    /\ users = [a \in Accounts |-> DefaultRow]
    /\ \E a \in Accounts : connected = [b \in Accounts |-> b # a]
    /\ clients = StartupClients
    /\ detached = <<>>
    /\ calls = <<>>
    /\ requests = 0
    /\ eventHandlers = [a \in Accounts |-> <<StartupHandler(DefaultRow)>>]
    /\ lastUpdateId = [a \in Accounts |-> 0]
    /\ updateBuffers = [a \in Accounts |-> <<>>]
    /\ updateHandlers = [a \in Accounts |-> NoHandler]
    /\ timers = {}
    /\ promises = <<>>
    /\ deliveries = <<>>
    /\ processedMessages = <<>>
    /\ pendingAlbums = [g \in GroupIds |-> NoAlbum]
    /\ albumTimers = {}
    /\ issued = [a \in Accounts |-> <<>>]
    /\ produced = <<>>
    /\ buffered = [a \in Accounts |-> <<>>]
    /\ armed = 0
    /\ observed = <<>>
    /\ fired = {}
    /\ escaped = 0
    /\ rawEvents = 0

(* Requests that meet a client without a connection *)
NextDropped ==
    \/ \E a \in Accounts : RawEvent(a, "UpdateUserStatus", FALSE, 0)
    \/ \E a \in Accounts, timeout \in Timeouts : GetUpdates(a, Undefined, 100, timeout)
    \/ \E call \in timers : TimeoutFires(call)
    \/ \E a \in Accounts : Disconnect(a)
    \/ \E i \in DOMAIN calls, ok \in BOOLEAN : ConnectDone(i, ok)
    \/ \E i, j \in DOMAIN calls, ok \in BOOLEAN : ConnectDoneTogether(i, j, ok)
    \/ \E i \in DOMAIN calls : Rejected(i)
    \/ \E a \in Accounts, url \in Urls : SetWebhook(a, url, Secret)
    \/ \E i \in DOMAIN calls : QueryDone(i)

SpecDropped == InitDropped /\ [][NextDropped]_vars

----------------------------------------------------------------------------
(* setupEventHandling called with options: the client of every account got *)
(* its one set of handlers from a call that passed the options drawn.      *)

Excluding(types) == [given |-> TRUE, hasAllowed |-> FALSE,
                     allowed_updates |-> {}, exclude_updates |-> types]
Allowing(types) == [given |-> TRUE, hasAllowed |-> TRUE,
                    allowed_updates |-> types, exclude_updates |-> {}]

SampleOptions == {NoOptions, Excluding({"album"}), Excluding({"user_update", "message"}),
                  Allowing({"message", "typing"}), Allowing({"user_update"})}

(* The state Init, before any client has handlers *)
Fresh == [connected |-> [a \in Accounts |-> TRUE],
          clients |-> StartupClients, detached |-> <<>>, calls |-> <<>>,
          requests |-> 0,
          eventHandlers |-> [a \in Accounts |-> <<>>],
          lastUpdateId |-> [a \in Accounts |-> 0],
          updateBuffers |-> [a \in Accounts |-> <<>>],
          updateHandlers |-> [a \in Accounts |-> NoHandler],
          timers |-> {}, promises |-> <<>>, deliveries |-> <<>>,
          processedMessages |-> <<>>,
          pendingAlbums |-> [g \in GroupIds |-> NoAlbum],
          albumTimers |-> {},
          issued |-> [a \in Accounts |-> <<>>],
          produced |-> <<>>,
          buffered |-> [a \in Accounts |-> <<>>],
          armed |-> 0, observed |-> <<>>, fired |-> {}, escaped |-> 0]

InitOptions ==
    /\ now = 1
    /\ users = [a \in Accounts |-> DefaultRow]
    /\ rawEvents = 0
    /\ \E options \in SampleOptions :
          LET M == SetupEventHandling(SetupEventHandling(Fresh, DefaultRow, "a1", options),
                                      DefaultRow, "a2", options)
          IN /\ connected = M.connected
             /\ clients = M.clients
             /\ detached = M.detached
             /\ calls = M.calls
             /\ requests = M.requests
             /\ eventHandlers = M.eventHandlers
             /\ lastUpdateId = M.lastUpdateId
             /\ updateBuffers = M.updateBuffers
             /\ updateHandlers = M.updateHandlers
             /\ timers = M.timers
             /\ promises = M.promises
             /\ deliveries = M.deliveries
             /\ processedMessages = M.processedMessages
             /\ pendingAlbums = M.pendingAlbums
             /\ albumTimers = M.albumTimers
             /\ issued = M.issued
             /\ produced = M.produced
             /\ buffered = M.buffered
             /\ armed = M.armed
             /\ observed = M.observed
             /\ fired = M.fired
             /\ escaped = M.escaped

(* The raw events and the messages drawn: <<id, groupedId, editDate, post>> *)
OptionClasses == {"UpdateUserStatus", "UpdateUserTyping"}
OptionMessages == {<<1, 7, FALSE, FALSE>>, <<2, 7, FALSE, FALSE>>,
                   <<3, NoGroup, FALSE, FALSE>>}

NextOptions ==
    \/ \E a \in Accounts, className \in OptionClasses :
          RawEvent(a, className, FALSE, 0)
    \/ \E a \in Accounts, m \in OptionMessages :
          MessageEvent(a, m[1], m[2], m[3], m[4], 0)
    \/ \E timer \in albumTimers : AlbumTimerFires(timer)

SpecOptions == InitOptions /\ [][NextOptions]_vars

----------------------------------------------------------------------------
(* The webhook sender on its own: every account was started in webhook     *)
(* mode, one update is sent for account a1, and its delivery is followed   *)
(* to the end with every jitter value and any number of failed attempts.   *)

WebhookRows == {[updateMode |-> "webhook", webhookUrl |-> url, webhookSecret |-> secret] :
                   url \in Urls, secret \in Secrets}

InitWebhook ==
    /\ now = 1
    /\ \E row \in WebhookRows : users = [a \in Accounts |-> row]
    /\ connected = [a \in Accounts |-> TRUE]
    /\ clients = StartupClients
    /\ detached = <<>>
    /\ calls = <<>>
    /\ requests = 0
    /\ eventHandlers = [a \in Accounts |-> <<StartupHandler(users[a])>>]
    /\ lastUpdateId = [a \in Accounts |-> 0]
    /\ updateBuffers = [a \in Accounts |-> <<>>]
    /\ updateHandlers = [a \in Accounts |-> NoHandler]
    /\ timers = {}
    /\ promises = <<>>
    /\ deliveries = <<>>
    /\ processedMessages = <<>>
    /\ pendingAlbums = [g \in GroupIds |-> NoAlbum]
    /\ albumTimers = {}
    /\ issued = [a \in Accounts |-> <<>>]
    /\ produced = <<>>
    /\ buffered = [a \in Accounts |-> <<>>]
    /\ armed = 0
    /\ observed = <<>>
    /\ fired = {}
    /\ escaped = 0
    /\ rawEvents = 0

(* The raw events drawn: <<className, what getChatAction finds>>; only an  *)
(* update of a class in ChatActionClasses can carry an action              *)
WebhookEvents == {<<className, FALSE>> : className \in RawClasses}
                     \cup {<<className, TRUE>> : className \in ChatActionClasses}

NextWebhook ==
    \/ \E event \in WebhookEvents :
          rawEvents = 0 /\ RawEvent("a1", event[1], event[2], 0)
    \/ \E d \in Unfinished : AttemptOk(d)
    \/ \E d \in Unfinished : AttemptFail(d, "status", 0)
    \/ \E d \in Unfinished, cause \in FailureCauses \ {"status"},
          jitter \in 0..(JitterRange - 1) : AttemptFail(d, cause, jitter)
    \/ \E d \in Unfinished, jitter \in 0..(JitterRange - 1) : BodyRead(d, jitter)
    \/ \E d \in Unfinished : BackoffElapsed(d)

SpecWebhook == InitWebhook /\ [][NextWebhook]_vars

----------------------------------------------------------------------------
(* Mode switches while deliveries are retrying: every account was started  *)
(* in webhook mode, with or without a secret; account a1 receives one      *)
(* event and has its webhook set and deleted; the receiver fails           *)
(* MaxFailures attempts at most.                                           *)

(* The values of Math.floor(Math.random() * 200) drawn *)
SampleJitter == {0, JitterRange - 1}

NextRetarget ==
    \/ rawEvents = 0 /\ RawEvent("a1", "UpdateUserStatus", FALSE, 0)
    \/ \E url \in Urls, secret \in Secrets : SetWebhook("a1", url, secret)
    \/ DeleteWebhook("a1")
    \/ \E i \in DOMAIN calls : QueryDone(i)
    \/ \E d \in Unfinished : AttemptOk(d)
    \/ \E d \in Unfinished, cause \in FailureCauses, jitter \in SampleJitter :
          FailedAttempts < MaxFailures /\ AttemptFail(d, cause, jitter)
    \/ \E d \in Unfinished, jitter \in SampleJitter : BodyRead(d, jitter)
    \/ \E d \in Unfinished : BackoffElapsed(d)

SpecRetarget == InitWebhook /\ [][NextRetarget]_vars

----------------------------------------------------------------------------
(* A receiver that is down for the first update: every account was started *)
(* in webhook mode, every attempt for the first update sent fails, and the *)
(* updates sent after it are answered 2xx.                                 *)

NextExhaust ==
    \/ \E a \in Accounts : RawEvent(a, "UpdateUserStatus", FALSE, 0)
    \/ \E d \in Unfinished : d = 1 /\ AttemptFail(d, "status", 0)
    \/ \E d \in Unfinished : BodyRead(d, 0)
    \/ \E d \in Unfinished : BackoffElapsed(d)
    \/ \E d \in Unfinished : d > 1 /\ AttemptOk(d)

SpecExhaust == InitWebhook /\ [][NextExhaust]_vars

----------------------------------------------------------------------------
(* Properties *)

Range(seq) == {seq[i] : i \in DOMAIN seq}

IsWebhookUser(user) == user.updateMode = "webhook" /\ Truthy(user.webhookUrl)

(* The promise of the getUpdates call made by the step *)
NewPromise == promises'[Len(promises')]

(* C1: for every account the ids issued by generateUpdateId are strictly   *)
(* increasing in the order of issue; none is issued twice.                 *)
C1_UpdateIdsStrictlyIncrease ==
    \A a \in Accounts : \A i, j \in DOMAIN issued[a] :
        i < j => issued[a][i] < issued[a][j]

(* Ids were issued for an account by a client the map had let go of, on    *)
(* which setupEventHandling ran again, after getUpdates was called.        *)
C1_Witness ==
    \E a \in Accounts :
        /\ Len(issued[a]) >= 2
        /\ ~HasClient(Manager, a)
        /\ \E n \in DOMAIN detached :
              detached[n].phoneNumber = a /\ Len(detached[n].eventHandlers) >= 2
        /\ \E c \in DOMAIN promises :
              promises[c].phoneNumber = a /\ promises[c].result # <<>>

(* Waiting call i is a getUpdates call of account a with these arguments;  *)
(* webhook tells whether the row the call holds is in webhook mode         *)
IsPoll(i, a, webhook, offset, limit, timeout) ==
    /\ calls[i].route = "getUpdates"
    /\ calls[i].phoneNumber = a
    /\ (calls[i].user.updateMode = "webhook") = webhook
    /\ calls[i].offset = offset
    /\ calls[i].limit = limit
    /\ calls[i].timeout = timeout

(* The step runs UpdateManager.getUpdates for one request, of account a    *)
(* and with these arguments, at once or when the call leaves its await     *)
Polls(a, webhook, offset, limit, timeout) ==
    /\ Len(promises') = Len(promises) + 1
    /\ NewPromise.phoneNumber = a
    /\ \/ /\ (users[a].updateMode = "webhook") = webhook
          /\ requests' = requests + 1
          /\ GetUpdates(a, offset, limit, timeout)
       \/ \E i \in DOMAIN calls, ok \in BOOLEAN :
             /\ IsPoll(i, a, webhook, offset, limit, timeout)
             /\ requests' = requests
             /\ ConnectDone(i, ok)
       \/ \E i \in DOMAIN calls :
             /\ IsPoll(i, a, webhook, offset, limit, timeout)
             /\ requests' = requests
             /\ GetMeDone(i)
       \/ \E i, j \in DOMAIN calls, ok \in BOOLEAN :
             /\ requests' = requests
             /\ \/ /\ IsPoll(i, a, webhook, offset, limit, timeout)
                   /\ calls[j].route # "getUpdates"
                \/ /\ IsPoll(j, a, webhook, offset, limit, timeout)
                   /\ calls[i].route # "getUpdates"
             /\ ConnectDoneTogether(i, j, ok)

(* C2: no buffered update is discarded without having been returned: a     *)
(* getUpdates call without offset, in a non-webhook mode, with a limit     *)
(* that covers the buffer, returns every update the buffer held.           *)
C2_BufferedUpdatesAreReturned ==
    [][\A a \in Accounts, limit \in Limits, timeout \in Timeouts :
         ( /\ limit >= Len(updateBuffers[a])
           /\ Polls(a, FALSE, Undefined, limit, timeout) )
         => \A u \in Range(updateBuffers[a]) :
               \/ u \in Range(updateBuffers'[a])
               \/ u \in Range(NewPromise.result)]_vars

(* The updates of a buffer with update_id > offset, in buffer order *)
Above(buffer, offset) ==
    LET Test(u) == u.update_id > offset IN SelectSeq(buffer, Test)

(* C3: getUpdates with an offset, in a non-webhook mode, on a buffer that  *)
(* holds updates above the offset returns exactly those updates, in        *)
(* buffer order, up to limit.                                              *)
C3_OffsetReturnsUpdatesAboveIt ==
    [][\A a \in Accounts, offset \in Offsets, limit \in Limits, timeout \in Timeouts :
         ( /\ ~Falsy(offset)
           /\ Above(updateBuffers[a], offset) # <<>>
           /\ Polls(a, FALSE, offset, limit, timeout) )
         => /\ NewPromise.status = "resolved"
            /\ NewPromise.result = SliceTo(Above(updateBuffers[a], offset), limit)]_vars

(* C4: getUpdates without offset, in a non-webhook mode, on a buffer of    *)
(* n >= 1 updates returns them all in order, up to limit, and leaves the   *)
(* buffer empty.                                                           *)
C4_NoOffsetDrainsBuffer ==
    [][\A a \in Accounts, limit \in Limits, timeout \in Timeouts :
         ( /\ Len(updateBuffers[a]) >= 1
           /\ Polls(a, FALSE, Undefined, limit, timeout) )
         => /\ NewPromise.status = "resolved"
            /\ NewPromise.result = SliceTo(updateBuffers[a], limit)
            /\ updateBuffers'[a] = <<>>]_vars

(* The ids of account a handed to bufferUpdate by the step *)
NewlyBuffered(a) ==
    {buffered'[a][i] : i \in (Len(buffered[a]) + 1)..Len(buffered'[a])}

(* The ids among them that the waiter h accepts *)
Qualifying(a, h) ==
    {id \in NewlyBuffered(a) : Falsy(h.offset) \/ id > h.offset}

(* C5: an update handed to bufferUpdate for an account with a registered   *)
(* waiter (above the waiter's offset, when it has one), whichever client   *)
(* and closure it comes from, resolves the waiter in that step with a      *)
(* sequence containing the update, cancels its timer and empties the slot; *)
(* a cancelled timer is never armed again and an armed timer always        *)
(* belongs to a pending promise.                                           *)
C5_EventResolvesWaiter ==
    /\ [](\A c \in timers : promises[c].status = "pending")
    /\ [][\A c \in DOMAIN promises : c \notin timers => c \notin timers']_vars
    /\ [][\A a \in Accounts :
            LET h == updateHandlers[a] IN
            ( /\ h # NoHandler
              /\ Qualifying(a, h) # {} )
            => /\ promises'[h.call].status = "resolved"
               /\ \E id \in Qualifying(a, h) :
                     \E u \in Range(promises'[h.call].result) : u.update_id = id
               /\ h.call \notin timers'
               /\ updateHandlers'[a] = NoHandler]_vars

(* A waiter was resolved with an update of a client that the map had let   *)
(* go of before the waiter was registered; its timer and slot are gone     *)
C5_Witness ==
    \E c \in DOMAIN promises :
        /\ promises[c].waited
        /\ promises[c].status = "resolved"
        /\ promises[c].result # <<>>
        /\ c \notin timers
        /\ updateHandlers[promises[c].phoneNumber] = NoHandler
        /\ ~HasClient(Manager, promises[c].phoneNumber)
        /\ \E n \in DOMAIN detached :
              /\ detached[n].phoneNumber = promises[c].phoneNumber
              /\ detached[n].connected

(* C6: when the timeout of a registered waiter fires, its promise is       *)
(* resolved with the empty sequence and the account's slot is cleared.     *)
C6_TimeoutResolvesEmpty ==
    [][\A c \in timers :
         TimeoutFires(c)
         => /\ promises'[c].status = "resolved"
            /\ promises'[c].result = <<>>
            /\ updateHandlers'[promises[c].phoneNumber] = NoHandler
            /\ c \notin timers']_vars

(* A waiter timed out: resolved with the empty sequence *)
C6_Witness ==
    \E c \in DOMAIN promises :
        /\ promises[c].waited
        /\ promises[c].status = "resolved"
        /\ promises[c].result = <<>>
        /\ updateHandlers[promises[c].phoneNumber] = NoHandler

(* C7: getUpdates with timeout 0, in a non-webhook mode, on a buffer that  *)
(* yields nothing for the offset returns the empty sequence in the same    *)
(* step and leaves no waiter and no timer for the account.                 *)
C7_ZeroTimeoutNeverWaits ==
    [][\A a \in Accounts, offset \in Offsets, limit \in Limits :
         ( /\ IF Falsy(offset) THEN updateBuffers[a] = <<>>
                               ELSE Above(updateBuffers[a], offset) = <<>>
           /\ Polls(a, FALSE, offset, limit, 0) )
         => /\ NewPromise.status = "resolved"
            /\ NewPromise.result = <<>>
            /\ updateHandlers'[a] = NoHandler
            /\ \A c \in timers' : promises'[c].phoneNumber # a]_vars

(* A call returned the empty sequence without ever waiting *)
C7_Witness ==
    \E c \in DOMAIN promises :
        /\ ~promises[c].waited
        /\ promises[c].status = "resolved"
        /\ promises[c].result = <<>>
        /\ updateHandlers[promises[c].phoneNumber] = NoHandler

(* C8: getUpdates for an account in webhook mode is rejected and changes   *)
(* nothing: buffer, waiter, timers and last update_id stay as they were.   *)
C8_WebhookModeRejectsAndChangesNothing ==
    [][\A a \in Accounts, offset \in Offsets, limit \in Limits, timeout \in Timeouts :
         Polls(a, TRUE, offset, limit, timeout)
         => /\ NewPromise.status = "rejected"
            /\ updateBuffers'[a] = updateBuffers[a]
            /\ updateHandlers'[a] = updateHandlers[a]
            /\ timers' = timers
            /\ lastUpdateId'[a] = lastUpdateId[a]]_vars

(* C9: a delivery never posts more than maxRetries + 1 times; it is given  *)
(* up exactly after maxRetries + 1 failed posts; no backoff follows the    *)
(* last attempt; a finished delivery stays finished.                       *)
C9_ExactlyMaxRetriesPlusOneAttempts ==
    /\ [](\A d \in DOMAIN deliveries :
            /\ deliveries[d].posts <= maxRetries + 1
            /\ deliveries[d].phase = "exhausted" => deliveries[d].posts = maxRetries + 1
            /\ deliveries[d].phase = "backoff" => deliveries[d].posts <= maxRetries)
    /\ [][\A d \in DOMAIN deliveries :
            deliveries[d].phase \in {"exhausted", "delivered"}
            => deliveries'[d] = deliveries[d]]_vars

(* A delivery was given up after maxRetries + 1 posts *)
C9_Witness ==
    \E d \in DOMAIN deliveries :
        deliveries[d].phase = "exhausted" /\ deliveries[d].posts = maxRetries + 1

(* 2^n for the exponents TLC's integers can hold; beyond them the product  *)
(* with 1000 exceeds maxBackoffTime all the same.                          *)
Power2(n) == 2 ^ Min(n, 20)

(* C10: the delay after failed attempt n is min(30000, 2^n * 1000 + j) for *)
(* an integer 0 <= j < 200; within a delivery the delays never decrease    *)
(* and never exceed 30000.                                                 *)
C10_BackoffFormulaMonotoneCapped ==
    /\ [](\A d \in DOMAIN deliveries :
            /\ deliveries[d].backoffTime <= 30000
            /\ deliveries[d].phase = "backoff" =>
                 \E j \in 0..199 :
                    deliveries[d].backoffTime =
                       Min(30000, Power2(deliveries[d].attempt) * 1000 + j))
    /\ [][\A d \in DOMAIN deliveries :
            deliveries'[d].backoffTime >= deliveries[d].backoffTime]_vars

(* A delivery waits the capped delay after an earlier, shorter one *)
C10_Witness ==
    \E d \in DOMAIN deliveries :
        /\ deliveries[d].phase = "backoff"
        /\ deliveries[d].attempt >= 5
        /\ deliveries[d].backoffTime = maxBackoffTime

(* The sendWebhook calls made for update p of the history `produced` *)
WebhookHandoffs(p) ==
    {d \in DOMAIN deliveries :
        /\ deliveries[d].phoneNumber = p.phoneNumber
        /\ deliveries[d].update.update_id = p.update_id}

(* The bufferUpdate calls made for update p of the history `produced` *)
BufferHandoffs(p) ==
    {i \in DOMAIN buffered[p.phoneNumber] : buffered[p.phoneNumber][i] = p.update_id}

(* C11: every Update built by a handler, from a raw or a NewMessage event, *)
(* was handed to exactly one of sendWebhook and bufferUpdate: to           *)
(* sendWebhook exactly when the user row the handler works for has         *)
(* updateMode webhook and a webhook URL, otherwise to bufferUpdate.        *)
C11_ExactlyOneDeliveryPath ==
    /\ \A a \in Accounts : Len(issued[a]) =
           Cardinality({i \in DOMAIN produced : produced[i].phoneNumber = a})
    /\ \A i \in DOMAIN produced :
          LET p == produced[i] IN
          /\ Cardinality(WebhookHandoffs(p)) + Cardinality(BufferHandoffs(p)) = 1
          /\ WebhookHandoffs(p) # {} <=> IsWebhookUser(p.user)

(* Updates of both event sources went down both paths *)
C11_Witness ==
    /\ \E i, j \in DOMAIN produced :
          /\ WebhookHandoffs(produced[i]) # {}
          /\ BufferHandoffs(produced[j]) # {}
    /\ \E d \in DOMAIN deliveries : deliveries[d].update.kind = "user_status"
    /\ \E a \in Accounts : \E u \in Range(updateBuffers[a]) : u.kind \in MessageTypes

(* The ids generated for account a by the step *)
NewIds(a) == {issued'[a][i] : i \in (Len(issued[a]) + 1)..Len(issued'[a])}

(* The ids of account a handed to sendWebhook by the step *)
NewlySent(a) ==
    {deliveries'[d].update.update_id : d \in
        {e \in (Len(deliveries) + 1)..Len(deliveries') : deliveries'[e].phoneNumber = a}}

(* No setWebhook or deleteWebhook call of account a is waiting in an await *)
WebhookCallsDone(a) ==
    \A i \in DOMAIN calls :
        calls[i].phoneNumber = a => calls[i].route \notin {"setWebhook", "deleteWebhook"}

(* setWebhook has completed for account a: its row is in webhook mode and  *)
(* a handler set up for a webhook row exists                               *)
WebhookSet(a) ==
    /\ IsWebhookUser(users[a])
    /\ WebhookCallsDone(a)
    /\ \E k \in DOMAIN eventHandlers[a] : IsWebhookUser(eventHandlers[a][k].user)

(* C12: once setWebhook has completed for an account, every Update that a  *)
(* provider event of the account yields goes to sendWebhook and none is    *)
(* handed to bufferUpdate.                                                 *)
C12_AfterSetWebhookOnlyWebhook ==
    [][\A a \in Accounts :
         ( /\ WebhookSet(a)
           /\ rawEvents' = rawEvents + 1 )
         => /\ NewlyBuffered(a) = {}
            /\ NewIds(a) \subseteq NewlySent(a)]_vars

(* deleteWebhook has completed for account a, which was in webhook mode:   *)
(* its row is back to mode none and a handler set up for the webhook row   *)
(* exists                                                                  *)
WebhookDeleted(a) ==
    /\ users[a].updateMode = "none"
    /\ WebhookCallsDone(a)
    /\ \E k \in DOMAIN eventHandlers[a] : IsWebhookUser(eventHandlers[a][k].user)

(* C13: once deleteWebhook has completed for an account that was in        *)
(* webhook mode, every Update a provider event of the account yields is    *)
(* handed to bufferUpdate and no sendWebhook call is made for it.          *)
C13_AfterDeleteWebhookOnlyBuffer ==
    [][\A a \in Accounts :
         ( /\ WebhookDeleted(a)
           /\ rawEvents' = rawEvents + 1 )
         => /\ NewlySent(a) = {}
            /\ NewIds(a) \subseteq NewlyBuffered(a)]_vars

(* C14: whatever setupEventHandling calls were made for an account, one    *)
(* handler set is active on its client: one provider event yields at most  *)
(* one Update and consumes at most one update_id.                          *)
C14_OneHandlerSetOneUpdatePerEvent ==
    [][\A a \in Accounts :
         /\ Len(issued'[a]) <= Len(issued[a]) + 1
         /\ Len(produced') <= Len(produced) + 1]_vars

(* The NewMessage event of the step, as noted in the history *)
ThisEvent == observed'[Len(observed')]

(* The earlier events with the key of this one that produced an Update no  *)
(* more than the TTL before it                                             *)
RecentOriginals ==
    {i \in DOMAIN observed :
        /\ observed[i].key = ThisEvent.key
        /\ observed[i].updates > 0
        /\ ThisEvent.time - observed[i].time <= MESSAGE_CACHE_TTL}

(* The other keys observed after event i of the history *)
KeysSince(i) == {observed[j].key : j \in (i + 1)..Len(observed)} \ {observed[i].key}

(* The step is a NewMessage event that allocates no update_id and touches  *)
(* neither a buffer nor the webhook sender                                 *)
Discarded ==
    /\ ThisEvent.updates = 0
    /\ issued' = issued
    /\ lastUpdateId' = lastUpdateId
    /\ updateBuffers' = updateBuffers
    /\ deliveries' = deliveries

(* C15 as stated: a NewMessage event whose (account, message id, kind) was  *)
(* observed no more than the TTL earlier, by an event that produced an     *)
(* Update, is discarded.                                                   *)
C15_DuplicateWithinTtlDiscarded ==
    [][( /\ Len(observed') = Len(observed) + 1
         /\ RecentOriginals # {} )
       => Discarded]_vars

(* C15, amended: such an event is discarded when fewer than MAX_CACHE_SIZE *)
(* other keys were observed since the event that produced the Update.      *)
C15_DuplicateWithinTtlAndCapacityDiscarded ==
    [][( /\ Len(observed') = Len(observed) + 1
         /\ \E i \in RecentOriginals : Cardinality(KeysSince(i)) < MAX_CACHE_SIZE )
       => Discarded]_vars

(* A message was observed again within the TTL, after the cache had        *)
(* overflowed, and produced nothing the second time                        *)
C15_Witness ==
    \E i, j \in DOMAIN observed :
        /\ i < j
        /\ \E k \in (MAX_CACHE_SIZE + 1)..(j - 1) : observed[k].key[2] > MAX_CACHE_SIZE
        /\ observed[i].key = observed[j].key
        /\ observed[i].updates > 0
        /\ observed[j].updates = 0
        /\ observed[j].time - observed[i].time <= MESSAGE_CACHE_TTL

(* The Updates of account a that are in its buffer, were handed to the     *)
(* webhook sender or were returned by a getUpdates call                    *)
LocatedUpdates(a) ==
    Range(updateBuffers[a])
    \cup {deliveries[d].update : d \in {e \in DOMAIN deliveries : deliveries[e].phoneNumber = a}}
    \cup UNION {Range(promises[c].result) :
                  c \in {e \in DOMAIN promises : promises[e].phoneNumber = a}}

(* The Updates the step produced for account a *)
NewUpdates(a) == {u \in LocatedUpdates(a)' : u.update_id \in NewIds(a)}

(* The events of the history that offered the first fragment of the group  *)
(* of this event on the same account: the entry they created is awaited by *)
(* a timer that has not fired, and no other fragment of the group was seen *)
(* on the account since.                                                   *)
FirstFragments ==
    {i \in DOMAIN observed :
        /\ observed[i].key[1] = ThisEvent.key[1]
        /\ observed[i].groupedId = ThisEvent.groupedId
        /\ observed[i].updates = 0
        /\ observed[i].timer # 0
        /\ observed[i].timer \notin fired
        /\ \A j \in (i + 1)..Len(observed) :
              ~( /\ observed[j].key[1] = ThisEvent.key[1]
                 /\ observed[j].groupedId = ThisEvent.groupedId )}

Ascending(id1, id2) == IF id1 <= id2 THEN <<id1, id2>> ELSE <<id2, id1>>

(* C16: a second fragment of a group, offered on the account that was      *)
(* offered the first one whose timer has not fired, yields exactly one     *)
(* Update: an album holding both fragments by ascending message id; the    *)
(* group's pending entry is removed.                                       *)
C16_TwoFragmentsOneAlbum ==
    [][( /\ Len(observed') = Len(observed) + 1
         /\ ThisEvent.groupedId # NoGroup
         /\ \A j \in DOMAIN observed : observed[j].key # ThisEvent.key
         /\ FirstFragments # {} )
       => \A i \in FirstFragments : \A a \in {b \in Accounts : b = ThisEvent.key[1]} :
             /\ ThisEvent.updates = 1
             /\ \A u \in NewUpdates(a) :
                   /\ u.kind = "album"
                   /\ [k \in 1..Len(u.messages) |-> u.messages[k].id]
                        = Ascending(observed[i].key[2], ThisEvent.key[2])
             /\ NewUpdates(a) # {}
             /\ pendingAlbums'[ThisEvent.groupedId] = NoAlbum]_vars

(* C17: when the initial timer of a pending entry that holds a single      *)
(* fragment fires, one Update representing that fragment is produced and   *)
(* handed to the webhook sender or to the poll buffer.                     *)
C17_LoneFragmentIsDelivered ==
    [][\A timer \in albumTimers :
         ( /\ timer.delay = 300
           /\ pendingAlbums[timer.groupId].timer = timer.id
           /\ Len(pendingAlbums[timer.groupId].messages) = 1
           /\ AlbumTimerFires(timer) )
         => \E a \in Accounts : \E u \in NewUpdates(a) :
               /\ Len(u.messages) = 1
               /\ u.messages[1] = pendingAlbums[timer.groupId].messages[1]]_vars

(* The calls of account a whose long-poll timeout is armed *)
Waiting(a) == {c \in timers : promises[c].phoneNumber = a}

(* C18: an account never has more than one waiter: when getUpdates has     *)
(* registered one, the waiter and the timeout of every earlier call of the *)
(* account are gone.                                                       *)
C18_AtMostOneWaiter ==
    \A a \in Accounts :
        /\ Cardinality(Waiting(a)) <= 1
        /\ updateHandlers[a] = NoHandler => Waiting(a) = {}
        /\ updateHandlers[a] # NoHandler => Waiting(a) = {updateHandlers[a].call}

(* A second getUpdates call registered its waiter while the first call of  *)
(* the account was still waiting                                           *)
C18_Witness ==
    \E a \in Accounts : \E c1, c2 \in DOMAIN promises :
        /\ c1 < c2
        /\ promises[c1].phoneNumber = a /\ promises[c2].phoneNumber = a
        /\ promises[c1].waited /\ promises[c1].status = "pending"
        /\ updateHandlers[a].call = c2
        /\ Waiting(a) = {c2}

(* A waiter that was removed from the registry without being settled *)
Orphaned(c) ==
    /\ promises[c].status = "pending"
    /\ c \notin timers
    /\ updateHandlers[promises[c].phoneNumber].call # c

(* The step leaves waiter h unsettled, without its timer and out of the    *)
(* registry of account a                                                   *)
Superseding(a, h) ==
    /\ h.call \notin timers'
    /\ updateHandlers'[a].call # h.call
    /\ promises'[h.call] = promises[h.call]
    /\ promises[h.call].status = "pending"

(* No promise of a waiter that left the registry unsettled is settled, and *)
(* the waiter gets neither a timer nor a registry entry again              *)
OrphansStayPending ==
    [][\A c \in DOMAIN promises :
         Orphaned(c) => /\ promises'[c] = promises[c]
                        /\ c \notin timers'
                        /\ updateHandlers'[promises[c].phoneNumber].call # c]_vars

(* C19: as stated: whatever getUpdates call is made for an account with a  *)
(* registered waiter, the call cancels that waiter's timeout and removes   *)
(* it without settling its promise, and nothing settles it afterwards.     *)
C19_SupersededWaiterNeverSettled ==
    /\ [][\A a \in Accounts :
            LET h == updateHandlers[a] IN
            ( /\ h # NoHandler
              /\ Len(promises') = Len(promises) + 1
              /\ NewPromise.phoneNumber = a )
            => Superseding(a, h)]_vars
    /\ OrphansStayPending

(* C19: UpdateManager.getUpdates, called with a row in a non-webhook mode  *)
(* for an account with a registered waiter, cancels that waiter's timeout  *)
(* and removes it without settling its promise, and nothing settles the    *)
(* promise of a removed waiter afterwards.                                 *)
C19_AcceptedCallSupersedesWaiter ==
    /\ [][\A a \in Accounts, offset \in Offsets, limit \in Limits, timeout \in Timeouts :
            LET h == updateHandlers[a] IN
            ( /\ h # NoHandler
              /\ Polls(a, FALSE, offset, limit, timeout) )
            => Superseding(a, h)]_vars
    /\ OrphansStayPending

(* A waiter was superseded by a later call, which an event then resolved;  *)
(* the superseded promise is still pending                                 *)
C19_Witness ==
    \E c1, c2 \in DOMAIN promises :
        /\ c1 < c2
        /\ promises[c1].phoneNumber = promises[c2].phoneNumber
        /\ Orphaned(c1)
        /\ promises[c2].waited
        /\ promises[c2].status = "resolved"
        /\ promises[c2].result # <<>>

(* The options the handlers of account a were set up with exclude the type *)
Excluded(type, a) ==
    \A k \in DOMAIN eventHandlers[a] :
        ~ShouldIncludeUpdate(type, eventHandlers[a][k].options)

(* The step emitted nothing for account a and left its last id alone *)
NothingEmitted(a) ==
    /\ lastUpdateId'[a] = lastUpdateId[a]
    /\ issued'[a] = issued[a]
    /\ produced' = produced

(* C20: an event of a kind that the options given to setupEventHandling    *)
(* exclude produces no Update and consumes no update_id: a raw event of an *)
(* excluded kind and a message of an excluded type emit nothing, and when  *)
(* the album kind is excluded no album Update is emitted.                  *)
C20_ExcludedKindsEmitNothing ==
    [][\A a \in Accounts :
         /\ \A className \in OptionClasses :
               ( /\ Excluded(TypeOfKind(KindOfClass(className)), a)
                 /\ RawEvent(a, className, FALSE, 0) )
               => NothingEmitted(a)
         /\ ( /\ Len(observed') = Len(observed) + 1
              /\ ThisEvent.key[1] = a )
            => /\ Excluded(ThisEvent.key[3], a) => NothingEmitted(a)
               /\ Excluded("album", a) =>
                     \A b \in {c \in Accounts : c = a} :
                        \A u \in NewUpdates(b) : u.kind # "album"]_vars

(* C21: an album Update of an account holds only fragments that were       *)
(* observed on that account's own event stream.                            *)
C21_AlbumHoldsOwnFragmentsOnly ==
    \A a \in Accounts : \A u \in LocatedUpdates(a) :
        u.kind = "album" =>
            \A i \in DOMAIN u.messages : u.messages[i].stream = a

(* The step is an operation performed for account a *)
StepFor(a) ==
    \/ /\ rawEvents' = rawEvents + 1
       /\ \/ RawEvent(a, "UpdateUserStatus", FALSE, 0)
          \/ MessageEvent(a, 1, NoGroup, FALSE, FALSE, 0)
    \/ /\ Len(promises') = Len(promises) + 1
       /\ \E timeout \in Timeouts : GetUpdates(a, Undefined, 100, timeout)
    \/ \E call \in timers : promises[call].phoneNumber = a /\ TimeoutFires(call)
    \/ \E url \in Urls : SetWebhook(a, url, Secret)
    \/ DeleteWebhook(a)
    \/ \E i \in DOMAIN calls : calls[i].phoneNumber = a /\ QueryDone(i)
    \/ \E d \in Unfinished :
          /\ deliveries[d].phoneNumber = a
          /\ \/ AttemptOk(d)
             \/ AttemptFail(d, "status", 0)
             \/ BodyRead(d, 0)
             \/ BackoffElapsed(d)

(* The step leaves the buffer, the waiter, the timer and the last id of    *)
(* account b as they were                                                  *)
Untouched(b) ==
    /\ updateBuffers'[b] = updateBuffers[b]
    /\ updateHandlers'[b] = updateHandlers[b]
    /\ Waiting(b)' = Waiting(b)
    /\ lastUpdateId'[b] = lastUpdateId[b]

(* C22: an operation performed for one account leaves the poll buffer, the *)
(* registered waiter and its timer, and the last update_id of every other  *)
(* account unchanged.                                                      *)
C22_OtherAccountsUntouched ==
    [][\A a, b \in Accounts : (a # b /\ StepFor(a)) => Untouched(b)]_vars

(* One account holds a buffered update while the other switched to webhook *)
(* mode, setWebhook having run to its end, and had a delivery fail and     *)
(* back off                                                                *)
C22_Witness ==
    \E a, b \in Accounts :
        /\ a # b
        /\ updateBuffers[b] # <<>>
        /\ lastUpdateId[b] > 0
        /\ Len(eventHandlers[a]) > 1
        /\ \A i \in DOMAIN calls : calls[i].phoneNumber # a
        /\ \E d \in DOMAIN deliveries :
              deliveries[d].phoneNumber = a /\ deliveries[d].phase = "backoff"

(* C23: every sequence a getUpdates call returned holds at most `limit`   *)
(* updates, whatever limit >= 1 the call had.  A call that returns at once *)
(* returns the empty sequence, its buffer having been cleared before it is *)
(* read; a waiter is resolved with no more updates than the least limit.   *)
C23_AtMostLimitReturned ==
    /\ \A c \in DOMAIN promises :
          \A limit \in Limits : Len(promises[c].result) <= limit
    /\ \A c \in DOMAIN promises :
          (~promises[c].waited /\ promises[c].status = "resolved")
          => promises[c].result = <<>>

(* A call with an offset waited while an update at or below the offset     *)
(* stayed in the buffer, and was resolved by a later event                 *)
C23_Witness ==
    \E c \in DOMAIN promises :
        /\ promises[c].waited
        /\ promises[c].status = "resolved"
        /\ Len(promises[c].result) = 1
        /\ Len(buffered[promises[c].phoneNumber]) > 1

StrictlyAscending(updates) ==
    \A i, j \in DOMAIN updates : i < j => updates[i].update_id < updates[j].update_id

(* C24: the poll buffer of every account is strictly ascending in          *)
(* update_id, and so is every sequence a getUpdates call returned.         *)
C24_BufferStrictlyAscending ==
    /\ \A a \in Accounts : StrictlyAscending(updateBuffers[a])
    /\ \A c \in DOMAIN promises : StrictlyAscending(promises[c].result)

(* A buffer holds several updates while a call of the account has been     *)
(* answered with an update                                                 *)
C24_Witness ==
    \E a \in Accounts :
        /\ Len(updateBuffers[a]) >= 2
        /\ \E c \in DOMAIN promises :
              promises[c].phoneNumber = a /\ promises[c].result # <<>>

(* The target of a delivery never changes: every attempt posts to the URL  *)
(* and with the body of the first one, and a mode switch during the        *)
(* retries leaves the request as it was                                    *)
TargetKept ==
    /\ [](\A d \in DOMAIN deliveries :
            /\ deliveries[d].request.url = deliveries[d].url
            /\ deliveries[d].request.body = deliveries[d].update)
    /\ [][\A d \in DOMAIN deliveries :
            /\ deliveries'[d].request = deliveries[d].request
            /\ deliveries'[d].url = deliveries[d].url
            /\ deliveries'[d].secret = deliveries[d].secret
            /\ deliveries'[d].update = deliveries[d].update]_vars

(* C25 as stated: every attempt of a delivery posts to the URL, with the   *)
(* body and with the secret of the first attempt; the secret header is on  *)
(* the request exactly when the row the delivery started with has a        *)
(* secret; a mode switch during the retries leaves the request as it was.  *)
C25_AttemptsKeepTarget ==
    /\ TargetKept
    /\ [](\A d \in DOMAIN deliveries :
            /\ deliveries[d].request.secretHeader # Null <=> deliveries[d].secret # Null
            /\ deliveries[d].secret # Null =>
                  deliveries[d].request.secretHeader = deliveries[d].secret)

(* C25, amended: the secret header is on the request, with the secret of   *)
(* the first attempt, exactly when the row the delivery started with has a *)
(* secret that is not the empty string; the rest as stated.                *)
C25_NonEmptySecretOnEveryAttempt ==
    /\ TargetKept
    /\ [](\A d \in DOMAIN deliveries :
            /\ deliveries[d].request.secretHeader # Null
                  <=> (deliveries[d].secret # Null /\ deliveries[d].secret # "")
            /\ deliveries[d].request.secretHeader # Null =>
                  deliveries[d].request.secretHeader = deliveries[d].secret)

(* A delivery that started with the empty string for a secret is at a     *)
(* later attempt, without the header, after the account's webhook was set  *)
(* anew with another secret while it was retrying                          *)
C25_Witness ==
    \E d \in DOMAIN deliveries :
        LET user == users[deliveries[d].phoneNumber] IN
        /\ deliveries[d].attempt >= 1
        /\ deliveries[d].phase = "fetch"
        /\ deliveries[d].secret = ""
        /\ deliveries[d].request.secretHeader = Null
        /\ user.webhookSecret = Secret

(* The step ends a failed attempt of delivery d: the catch block has run *)
AttemptFailed(d) ==
    /\ deliveries[d].phase \in {"fetch", "body"}
    /\ deliveries'[d].phase \in {"backoff", "exhausted"}

(* C26: a failed attempt is handled the same way whatever made it fail:    *)
(* the step that ends it is the catch block's for each of the three        *)
(* causes; it uses up the attempt, posts nothing more within it, and is    *)
(* followed by the backoff of that attempt or, after the last attempt, by  *)
(* giving up; reading the body of a non-2xx response before that changes   *)
(* nothing of the delivery.                                                *)
C26_FailuresHandledAlike ==
    /\ [][\A d \in DOMAIN deliveries :
            AttemptFailed(d) =>
              /\ \A cause \in FailureCauses : \E jitter \in SampleJitter :
                    /\ deliveries' = SendWebhookCatch(Sender, d, cause, jitter).deliveries
                    /\ updateBuffers' = SendWebhookCatch(Sender, d, cause, jitter).updateBuffers
              /\ deliveries'[d].posts = deliveries[d].posts
              /\ deliveries'[d].attempt = deliveries[d].attempt
              /\ deliveries'[d].phase = "exhausted" <=> IsLastAttempt(deliveries[d].attempt)]_vars
    /\ [][\A d \in DOMAIN deliveries :
            ( deliveries[d].phase = "fetch" /\ deliveries'[d].phase = "body" )
            => deliveries' = [deliveries EXCEPT ![d].phase = "body"]]_vars
    /\ [][\A d \in DOMAIN deliveries :
            deliveries'[d].posts > deliveries[d].posts
            => /\ deliveries'[d].attempt = deliveries[d].attempt + 1
               /\ deliveries[d].phase = "backoff"]_vars

(* An attempt failed and its delivery waits the backoff of attempt 0 with  *)
(* the largest jitter                                                      *)
C26_Witness ==
    \E d \in DOMAIN deliveries :
        /\ deliveries[d].phase = "backoff"
        /\ deliveries[d].attempt = 0
        /\ deliveries[d].posts = 1
        /\ deliveries[d].backoffTime = BackoffTime(0, JitterRange - 1)

(* C27: a delivery ends with the attempt that is answered 2xx: the answer  *)
(* is followed by no post and no backoff, so the posts made are the index  *)
(* of that attempt plus one.                                               *)
C27_StopsAtFirstSuccess ==
    /\ [](\A d \in DOMAIN deliveries :
            deliveries[d].phase = "delivered" =>
                deliveries[d].posts = deliveries[d].attempt + 1)
    /\ [][\A d \in DOMAIN deliveries :
            /\ ( deliveries[d].phase = "fetch" /\ deliveries'[d].phase = "delivered" )
               => /\ deliveries'[d].posts = deliveries[d].posts
                  /\ deliveries'[d].backoffTime = deliveries[d].backoffTime
            /\ deliveries[d].phase = "delivered"
               => /\ deliveries'[d].phase = "delivered"
                  /\ deliveries'[d].posts = deliveries[d].posts
                  /\ deliveries'[d].backoffTime = deliveries[d].backoffTime]_vars

(* A delivery succeeded at a later attempt, after failures *)
C27_Witness ==
    \E d \in DOMAIN deliveries :
        /\ deliveries[d].phase = "delivered"
        /\ deliveries[d].attempt = 3
        /\ deliveries[d].posts = 4

(* The update of delivery d is in no store of its account *)
Dropped(d) ==
    LET a == deliveries[d].phoneNumber IN
    /\ deliveries[d].update \notin Range(updateBuffers[a])
    /\ deliveries[d].update.update_id \notin Range(buffered[a])
    /\ \A c \in DOMAIN promises : deliveries[d].update \notin Range(promises[c].result)
    /\ \A e \in DOMAIN deliveries :
          (e # d /\ deliveries[e].phoneNumber = a)
          => deliveries[e].update.update_id # deliveries[d].update.update_id

(* C28: the update of a delivery that was given up is dropped: it is in no *)
(* buffer and in no other delivery, the delivery stays given up, and an    *)
(* event that arrives afterwards is made into an Update with the next id   *)
(* and posted to the webhook.                                              *)
C28_ExhaustedUpdateDropped ==
    /\ [](\A d \in DOMAIN deliveries : deliveries[d].phase = "exhausted" => Dropped(d))
    /\ [][\A d \in DOMAIN deliveries :
            deliveries[d].phase = "exhausted" =>
              /\ deliveries'[d] = deliveries[d]
              /\ \A a \in {b \in Accounts : b = deliveries[d].phoneNumber} :
                    ( /\ rawEvents' = rawEvents + 1
                      /\ RawEvent(a, "UpdateUserStatus", FALSE, 0) )
                    => /\ Len(deliveries') = Len(deliveries) + 1
                       /\ deliveries'[Len(deliveries')].phoneNumber = a
                       /\ deliveries'[Len(deliveries')].phase = "fetch"
                       /\ deliveries'[Len(deliveries')].update.update_id
                             = lastUpdateId[a] + 1]_vars

(* A delivery was given up, and an update of the same account that was     *)
(* sent after it has been delivered                                        *)
C28_Witness ==
    \E d, e \in DOMAIN deliveries :
        /\ d < e
        /\ deliveries[d].phase = "exhausted"
        /\ deliveries[e].phoneNumber = deliveries[d].phoneNumber
        /\ deliveries[e].phase = "delivered"
        /\ deliveries[e].update.update_id > deliveries[d].update.update_id

(* The earlier events of the history with the key of this one *)
EarlierSightings == {i \in DOMAIN observed : observed[i].key = ThisEvent.key}

(* C29: a message whose key was seen before, every time more than the TTL  *)
(* ago, is not taken for a duplicate: the event produces an Update.        *)
C29_ExpiredKeyIsProcessedAgain ==
    [][( /\ Len(observed') = Len(observed) + 1
          /\ EarlierSightings # {}
          /\ \A i \in EarlierSightings :
                ThisEvent.time - observed[i].time > MESSAGE_CACHE_TTL )
       => ThisEvent.updates > 0]_vars

(* The cache entry the step inserted, and the cache with it *)
Inserted == [key |-> ThisEvent.key, timestamp |-> ThisEvent.time]
WithInserted == Range(processedMessages) \cup {Inserted}

(* The entries that are older than the TTL at the time of the step *)
Expired == {e \in WithInserted : e.timestamp < ThisEvent.time - MESSAGE_CACHE_TTL}

(* C30: the cache never holds more than MAX_CACHE_SIZE entries.  An        *)
(* insertion that does not exceed the capacity evicts nothing.  One that   *)
(* does removes every entry older than the TTL and then, if more than      *)
(* MAX_CACHE_SIZE are left, the oldest ones until MAX_CACHE_SIZE remain,   *)
(* so that no entry removed unexpired is newer than one that is kept.      *)
C30_EvictionOnOverflowOldestFirst ==
    /\ [](Len(processedMessages) <= MAX_CACHE_SIZE)
    /\ [][( /\ Len(observed') = Len(observed) + 1
            /\ \A e \in Range(processedMessages) : e.key # ThisEvent.key )
          => LET kept == Range(processedMessages')
                 removed == (WithInserted \ Expired) \ kept
             IN /\ Len(processedMessages') = Cardinality(kept)
                /\ Len(processedMessages) + 1 <= MAX_CACHE_SIZE
                     => processedMessages' = Append(processedMessages, Inserted)
                /\ Len(processedMessages) + 1 > MAX_CACHE_SIZE
                     => /\ kept \subseteq WithInserted \ Expired
                        /\ Cardinality(WithInserted \ Expired) <= MAX_CACHE_SIZE
                             => removed = {}
                        /\ Cardinality(WithInserted \ Expired) > MAX_CACHE_SIZE
                             => Cardinality(kept) = MAX_CACHE_SIZE
                        /\ \A r \in removed : \A k \in kept :
                              r.timestamp <= k.timestamp]_vars

(* The cache is full after an insertion that pushed out the oldest entry,  *)
(* none being expired                                                      *)
C30_Witness ==
    /\ Len(processedMessages) = MAX_CACHE_SIZE
    /\ \E i \in DOMAIN processedMessages : processedMessages[i].key[2] > MAX_CACHE_SIZE
    /\ \A i \in DOMAIN processedMessages : processedMessages[i].key[2] # 1
    /\ \A i \in DOMAIN processedMessages : now - processedMessages[i].timestamp <= MESSAGE_CACHE_TTL

(* C31: no exception raised while an event is normalized or routed leaves  *)
(* the event handler, and a well-formed event of the account is made into  *)
(* an Update and delivered whatever came before it.                        *)
C31_ExceptionsStayInHandler ==
    /\ [](escaped = 0)
    /\ [][\A a \in Accounts :
            ( /\ rawEvents' = rawEvents + 1
              /\ RawEvent(a, "UpdateUserStatus", FALSE, 0) )
            => \E u \in NewUpdates(a) : u.kind = "user_status"]_vars

(* C32: handlers that were set up without options emit nothing for a raw   *)
(* event whose type is not one of DEFAULT_UPDATE_TYPES.                    *)
C32_DefaultTypesOnlyWithoutOptions ==
    [][\A a \in Accounts :
         ( /\ rawEvents' = rawEvents + 1
           /\ \A k \in DOMAIN eventHandlers[a] : ~eventHandlers[a][k].options.given
           /\ \E event \in SampleEvents, elapsed \in Elapsed :
                 /\ TypeOfKind(KindOfClass(event[1])) \notin DEFAULT_UPDATE_TYPES
                 /\ RawEvent(a, event[1], event[2], elapsed) )
         => NothingEmitted(a)]_vars

----------------------------------------------------------------------------
(* Long polls under re-setup, with the timers of the event loop: a timer   *)
(* that setTimeout armed and nothing cleared does fire.                    *)

NextLive ==
    \/ \E a \in Accounts : RawEvent(a, "UpdateUserStatus", FALSE, 0)
    \/ \E a \in Accounts, timeout \in Timeouts : GetUpdates(a, Undefined, 100, timeout)
    \/ \E call \in timers : TimeoutFires(call)
    \/ \E a \in Accounts : Disconnect(a)
    \/ \E a \in Accounts : Reconnect(a)
    \/ \E i \in DOMAIN calls : RouteReached(i)
    \/ \E i \in DOMAIN calls, ok \in BOOLEAN : ConnectDone(i, ok)
    \/ \E i, j \in DOMAIN calls, ok \in BOOLEAN : ConnectDoneTogether(i, j, ok)
    \/ \E i \in DOMAIN calls : Rejected(i)
    \/ \E a \in Accounts, url \in Urls : SetWebhook(a, url, Secret)
    \/ \E a \in Accounts : DeleteWebhook(a)
    \/ \E i \in DOMAIN calls : QueryDone(i)
    \/ \E d \in Unfinished : AttemptOk(d)

SpecLive ==
    /\ Init
    /\ [][NextLive]_vars
    /\ \A call \in 1..MaxOps : WF_vars(call \in timers /\ TimeoutFires(call))
    /\ \A i \in 1..MaxOps : WF_vars(QueryDone(i))
    /\ \A i \in 1..MaxOps : WF_vars(RouteReached(i))

(* A later getUpdates call for the account of call c *)
Superseded(c) ==
    \E c2 \in DOMAIN promises :
        c2 > c /\ promises[c2].phoneNumber = promises[c].phoneNumber

(* C33: every call that registered a waiter is eventually settled, unless  *)
(* a later getUpdates call for the account supersedes it; setWebhook,      *)
(* deleteWebhook and a reconnect leave no waiter unsettled forever.        *)
C33_WaiterEventuallySettled ==
    \A c \in 1..MaxOps :
        ( /\ c \in DOMAIN promises
          /\ promises[c].waited
          /\ promises[c].status = "pending" )
        ~> ( /\ c \in DOMAIN promises
             /\ promises[c].status # "pending" \/ Superseded(c) )

(* A delivery whose POST failed and that sendWebhook is still retrying *)
Retrying(d) ==
    \/ deliveries[d].phase \in {"body", "backoff"}
    \/ deliveries[d].phase = "fetch" /\ deliveries[d].attempt > 0

(* C34: the webhook deliveries of an account reach the receiver in the     *)
(* order of their update_id: no update is delivered while an update of the *)
(* account with a smaller update_id is still being retried.                *)
C34_DeliveredInUpdateIdOrder ==
    \A d, e \in DOMAIN deliveries :
        ( /\ deliveries[d].phoneNumber = deliveries[e].phoneNumber
          /\ deliveries[d].update.update_id < deliveries[e].update.update_id
          /\ deliveries[e].phase = "delivered" )
        => ~Retrying(d)

(* C35: an album timer acts on the pending entry it was armed for only:    *)
(* when a timer fires that the group's pending entry does not hold (one    *)
(* armed for an entry that was flushed since), the entry stays.            *)
C35_AlbumTimerOwnsItsEntry ==
    [][\A timer \in albumTimers :
         AlbumTimerFires(timer)
         => \A g \in DOMAIN pendingAlbums :
               ( /\ pendingAlbums[g] # NoAlbum
                 /\ pendingAlbums[g].timer # timer.id )
               => pendingAlbums'[g] = pendingAlbums[g]]_vars

(* C36: every armed long-poll timer belongs to the waiter that is          *)
(* registered for its account, and the timeout callback of a call leaves   *)
(* every waiter of another call registered and unsettled.                  *)
C36_TimerBelongsToRegisteredWaiter ==
    /\ [](\A call \in timers :
            /\ call \in DOMAIN promises
            /\ updateHandlers[promises[call].phoneNumber].call = call)
    /\ [][\A call \in timers :
            TimeoutFires(call)
            => \A a \in Accounts :
                  ( /\ updateHandlers[a] # NoHandler
                    /\ updateHandlers[a].call # call )
                  => /\ updateHandlers'[a] = updateHandlers[a]
                     /\ promises'[updateHandlers[a].call]
                           = promises[updateHandlers[a].call]
                     /\ updateHandlers[a].call \in timers']_vars

(* A call timed out while the waiter of an earlier call, of the other      *)
(* account, was registered: that waiter is still registered and armed      *)
C36_Witness ==
    \E c1, c2 \in DOMAIN promises :
        /\ c2 < c1
        /\ promises[c1].waited
        /\ promises[c1].status = "resolved" /\ promises[c1].result = <<>>
        /\ promises[c2].status = "pending"
        /\ c2 \in timers
        /\ updateHandlers[promises[c2].phoneNumber].call = c2

(* The call is the registered waiter of its account *)
Registered(c) == updateHandlers[promises[c].phoneNumber].call = c

(* C37: the promise of a getUpdates call is settled at most once.  A       *)
(* settled call has no armed timer and is not registered, so neither the   *)
(* timeout callback nor an event can resolve it again; the outcome of a    *)
(* settled call never changes; and the promise of a call that is not the   *)
(* registered waiter is not resolved.                                      *)
C37_SettledAtMostOnce ==
    /\ [](\A c \in DOMAIN promises :
            promises[c].status # "pending" => c \notin timers /\ ~Registered(c))
    /\ [][\A c \in DOMAIN promises :
            promises[c].status # "pending" => promises'[c] = promises[c]]_vars
    /\ [][\A c \in DOMAIN promises :
            ~Registered(c) => promises'[c] = promises[c]]_vars

(* A waiter was resolved by an update of a client the map had let go of,   *)
(* and a later update of the account was buffered after it had been        *)
(* settled                                                                 *)
C37_Witness ==
    \E c \in DOMAIN promises :
        /\ promises[c].waited
        /\ promises[c].status = "resolved"
        /\ promises[c].result # <<>>
        /\ ~HasClient(Manager, promises[c].phoneNumber)
        /\ \E u \in Range(updateBuffers[promises[c].phoneNumber]) :
              \A r \in Range(promises[c].result) : u.update_id > r.update_id

====
